---- MODULE Spec2Model ----
(***************************************************************************)
(* A model of pargus, the schema compiler of the Argus protocol: the       *)
(* parser's semantic validation (pkg/parser), the bit-mask helper and the  *)
(* view selection of the C++ generator (pkg/generator), and the size       *)
(* formulas of the Go generator.                                           *)
(*                                                                         *)
(* The repository holds two revisions of the parser: pkg/parser/parser.go  *)
(* (ver = "v1") and the later revision that the Go generator is written    *)
(* against (ver = "v2", Register.FindFieldByName, Register.Number).  They  *)
(* differ in the grammar of a bit field's base type and in how a length    *)
(* reference is resolved; everything else is shared.  The Go generator     *)
(* also handles fields whose type names a register; the parser revision    *)
(* that accepts them (ver = "v3") is not among the sources: it is the      *)
(* second revision with SimpleType.IsRegisterRef and the rule of the       *)
(* language description for such fields (the register exists, no circular  *)
(* dependency).                                                            *)
(***************************************************************************)
EXTENDS Integers, Sequences, FiniteSets, TLC

VARIABLES
    ver,      \* which revision of the parser runs: "v1", "v2" or "v3"
    src,      \* the schema as written: a sequence of register declarations
    pc,       \* "input" before Parse, "parsed" after it, then the later phases
    device,   \* what Parse returned: the validated AST, or NoDevice (nil)
    err,      \* the error Parse returned (kind "none" for nil)
    code,     \* what the generator produced from the device
    arg,      \* the arguments of the function under test
    out       \* what the function under test returned

parseVars == <<ver, src, device, err>>
fnVars == <<arg, out>>
vars == <<ver, src, pc, device, err, code, arg, out>>

-----------------------------------------------------------------------------
(* The AST.  A field is a record                                           *)
(*   [name, spec, kind, tname, bits, size]                                 *)
(* kind "simple"   : tname is the type name;                               *)
(* kind "bitfield" : tname is the base type, bits the members;             *)
(* kind "array"    : tname is the element type, size the ArraySize.        *)
(* spec is "" (no specifier), "r" or "w".                                  *)

Versions == {"v1", "v2"}
Specifiers == {"", "r", "w"}

UnsignedTypes == {"uint8", "uint16", "uint32", "uint64"}
SignedTypes == {"int8", "int16", "int32", "int64"}
FloatTypes == {"float32", "float64"}
SimpleTypeNames == UnsignedTypes \cup SignedTypes \cup FloatTypes

NoBits == << >>
NoSize == [k |-> "none", n |-> << >>, ref |-> ""]
\* an Int token: its prefix ("", "0x" or "0b") and the values of its digits
Lit(prefix, digits) == [prefix |-> prefix, digits |-> digits]
\* the token of a one-digit decimal number
DecLit(n) == Lit("", <<n>>)
ConstSizeLit(lit) == [k |-> "const", n |-> lit, ref |-> ""]
ConstSize(n) == ConstSizeLit(DecLit(n))
VarSize(ref) == [k |-> "var", n |-> << >>, ref |-> ref]

SimpleField(name, spec, t) ==
    [name |-> name, spec |-> spec, kind |-> "simple", tname |-> t,
     bits |-> NoBits, size |-> NoSize]
BitFieldOf(name, spec, base, bits) ==
    [name |-> name, spec |-> spec, kind |-> "bitfield", tname |-> base,
     bits |-> bits, size |-> NoSize]
ArrayField(name, spec, size, elem) ==
    [name |-> name, spec |-> spec, kind |-> "array", tname |-> elem,
     bits |-> NoBits, size |-> size]

\* BitMember{Name, Start, End}: End is optional in the grammar
BitMember(name, start, end) ==
    [name |-> name, start |-> start, hasEnd |-> TRUE, end |-> end]
BitMember1(name, start) ==
    [name |-> name, start |-> start, hasEnd |-> FALSE, end |-> 0]

RegisterOf(name, number, spec, fields) ==
    [name |-> name, number |-> number, spec |-> spec, fields |-> fields]

NoDevice == [nil |-> TRUE, registers |-> << >>]
DeviceOf(regs) == [nil |-> FALSE, registers |-> regs]

\* errors: the message format (kind) and the values formatted into it
NoErr == [kind |-> "none", reg |-> "", fld |-> "", num |-> 0, ref |-> ""]
ErrOf(kind, reg, fld, num, ref) ==
    [kind |-> kind, reg |-> reg, fld |-> fld, num |-> num, ref |-> ref]

-----------------------------------------------------------------------------
(* The grammar: which declarations ParseString turns into an AST.          *)

\* BitField.Base: `@("int8"|...|"uint64")` in v1, `@("uint8"|...|"uint64")` in v2
BitFieldBases(v) ==
    IF v = "v1" THEN UnsignedTypes \cup SignedTypes ELSE UnsignedTypes

\* SimpleType.IsRegisterRef of the parser the Go generator is written
\* against (ver = "v3"): a type name that is none of the built-in simple
\* types names a register
IsRegisterRef(tname) == tname \notin SimpleTypeNames

\* the Int token of the lexer: `\d+` in v1, and also `0[xX]...` and
\* `0[bB]...` in the later revisions
IsInt(v, lit) == v # "v1" \/ lit.prefix = ""

\* the tokens of a bit member are Int tokens (a member built by BitMember
\* is written in decimal)
MemberTokens(v, bm) ==
    "text" \in DOMAIN bm => (IsInt(v, bm.text.start) /\ IsInt(v, bm.text.end))

\* TypeUnion: Bitfield | Array | Simple
TypeUnion(v, f) ==
    CASE f.kind = "bitfield" -> /\ f.tname \in BitFieldBases(v) /\ Len(f.bits) >= 1
                                /\ \A k \in 1..Len(f.bits) : MemberTokens(v, f.bits[k])
      [] f.kind = "array"    -> /\ f.tname \in SimpleTypeNames
                                /\ f.size.k \in {"const", "var"}
                                /\ f.size.k = "const" => IsInt(v, f.size.n)
      [] f.kind = "simple"   -> f.tname \in SimpleTypeNames
                                   \/ (v = "v3" /\ IsRegisterRef(f.tname))
      [] OTHER               -> FALSE

\* parser.ParseString: every field of every register must match the grammar
ParseString(v, d) ==
    \A i \in 1..Len(d) : \A j \in 1..Len(d[i].fields) : TypeUnion(v, d[i].fields[j])

-----------------------------------------------------------------------------
(* Semantic validation.                                                    *)

RECURSIVE specifierLoop(_, _)
specifierLoop(r, i) ==
    IF i > Len(r.fields) THEN [err |-> NoErr, reg |-> r]
    ELSE LET f == r.fields[i] IN
         IF f.spec = "" THEN
             \* the field inherits the register specifier: the AST is updated
             specifierLoop([r EXCEPT !.fields[i].spec = r.spec], i + 1)
         ELSE IF r.spec = "r" /\ f.spec = "w" THEN
             [err |-> ErrOf("write_in_readonly", r.name, f.name, 0, ""), reg |-> r]
         ELSE IF r.spec = "w" /\ f.spec = "r" THEN
             [err |-> ErrOf("read_in_writeonly", r.name, f.name, 0, ""), reg |-> r]
         ELSE specifierLoop(r, i + 1)

\* the specifier loop without the write-only-register check
RECURSIVE specifierLoopOneWay(_, _)
specifierLoopOneWay(r, i) ==
    IF i > Len(r.fields) THEN [err |-> NoErr, reg |-> r]
    ELSE LET f == r.fields[i] IN
         IF f.spec = "" THEN
             specifierLoopOneWay([r EXCEPT !.fields[i].spec = r.spec], i + 1)
         ELSE IF r.spec = "r" /\ f.spec = "w" THEN
             [err |-> ErrOf("write_in_readonly", r.name, f.name, 0, ""), reg |-> r]
         ELSE specifierLoopOneWay(r, i + 1)

validateSpecifiersOneWay(r) ==
    IF r.spec = "" THEN [err |-> NoErr, reg |-> r]
    ELSE specifierLoopOneWay(r, 1)

\* the specifier loop without `field.Specifier = registerSpec`
RECURSIVE specifierLoopNoInherit(_, _)
specifierLoopNoInherit(r, i) ==
    IF i > Len(r.fields) THEN [err |-> NoErr, reg |-> r]
    ELSE LET f == r.fields[i] IN
         IF f.spec = "" THEN specifierLoopNoInherit(r, i + 1)
         ELSE IF r.spec = "r" /\ f.spec = "w" THEN
             [err |-> ErrOf("write_in_readonly", r.name, f.name, 0, ""), reg |-> r]
         ELSE IF r.spec = "w" /\ f.spec = "r" THEN
             [err |-> ErrOf("read_in_writeonly", r.name, f.name, 0, ""), reg |-> r]
         ELSE specifierLoopNoInherit(r, i + 1)

validateSpecifiersNoInherit(r) ==
    IF r.spec = "" THEN [err |-> NoErr, reg |-> r]
    ELSE specifierLoopNoInherit(r, 1)

\* the validation that marks the unmarked fields of an unmarked register
\* read-only
validateSpecifiersDefaultRead(r) ==
    IF r.spec = ""
    THEN [err |-> NoErr,
          reg |-> [r EXCEPT !.fields =
                      [j \in 1..Len(r.fields) |->
                          IF r.fields[j].spec = "" THEN [r.fields[j] EXCEPT !.spec = "r"]
                          ELSE r.fields[j]]]]
    ELSE specifierLoop(r, 1)

validateAndUpdateFieldSpecifiers(r) ==
    IF r.spec = "" THEN [err |-> NoErr, reg |-> r]
    ELSE specifierLoop(r, 1)

\* isUnsignedType that takes every integer type
isIntegerType(typeName) ==
    typeName \in {"uint8", "uint16", "uint32", "uint64", "int8", "int16", "int32", "int64"}

isUnsignedType(typeName) == typeName \in {"uint8", "uint16", "uint32", "uint64"}

getTypeSizeInBits(typeName) ==
    CASE typeName = "uint8"  -> 8
      [] typeName = "uint16" -> 16
      [] typeName = "uint32" -> 32
      [] typeName = "uint64" -> 64
      [] OTHER               -> 0

\* BitMember.EndBit: the end bit, the start bit when the end is omitted
EndBit(bm) == IF bm.hasEnd THEN bm.end ELSE bm.start

\* the member loop with `endBit > baseTypeBits` for `endBit >= baseTypeBits`
RECURSIVE bitMemberLoopOffByOne(_, _, _, _)
bitMemberLoopOffByOne(r, f, baseTypeBits, k) ==
    IF k > Len(f.bits) THEN NoErr
    ELSE LET bm == f.bits[k]
             endBit == EndBit(bm)
         IN  IF endBit > baseTypeBits THEN
                 ErrOf("bit_range_exceeds", r.name, f.name, endBit, bm.name)
             ELSE IF bm.start < 0 THEN
                 ErrOf("bit_negative", r.name, f.name, bm.start, bm.name)
             ELSE IF bm.start > endBit THEN
                 ErrOf("bit_start_gt_end", r.name, f.name, bm.start, bm.name)
             ELSE bitMemberLoopOffByOne(r, f, baseTypeBits, k + 1)

RECURSIVE bitMemberLoop(_, _, _, _)
bitMemberLoop(r, f, baseTypeBits, k) ==
    IF k > Len(f.bits) THEN NoErr
    ELSE LET bm == f.bits[k]
             endBit == EndBit(bm)
         IN  IF endBit >= baseTypeBits THEN
                 ErrOf("bit_range_exceeds", r.name, f.name, endBit, bm.name)
             ELSE IF bm.start < 0 THEN
                 ErrOf("bit_negative", r.name, f.name, bm.start, bm.name)
             ELSE IF bm.start > endBit THEN
                 ErrOf("bit_start_gt_end", r.name, f.name, bm.start, bm.name)
             ELSE bitMemberLoop(r, f, baseTypeBits, k + 1)

RECURSIVE bitFieldLoop(_, _)
bitFieldLoop(r, i) ==
    IF i > Len(r.fields) THEN NoErr
    ELSE LET f == r.fields[i] IN
         IF f.kind = "bitfield" THEN
             IF ~isUnsignedType(f.tname) THEN
                 ErrOf("bit_base_not_unsigned", r.name, f.name, 0, f.tname)
             ELSE LET e == bitMemberLoop(r, f, getTypeSizeInBits(f.tname), 1) IN
                  IF e.kind # "none" THEN e ELSE bitFieldLoop(r, i + 1)
         ELSE bitFieldLoop(r, i + 1)

validateBitFields(r) == bitFieldLoop(r, 1)

\* the result of a name lookup: how the name matched, and where
NotFound == [found |-> FALSE, how |-> "", fi |-> 0, mi |-> 0]
Found(how, fi, mi) == [found |-> TRUE, how |-> how, fi |-> fi, mi |-> mi]

RECURSIVE findMemberV1(_, _, _, _)
findMemberV1(f, fieldName, fi, k) ==
    IF k > Len(f.bits) THEN NotFound
    ELSE LET bm == f.bits[k] IN
         IF bm.name = fieldName THEN Found("bitfield", fi, k)
         ELSE IF fieldName = f.name \o "_" \o bm.name THEN Found("bitfield_ref", fi, k)
         ELSE IF fieldName = f.name \o "_" \o bm.name \o "_bm" THEN Found("bitmask", fi, k)
         ELSE findMemberV1(f, fieldName, fi, k + 1)

RECURSIVE findFieldLoopV1(_, _, _, _)
findFieldLoopV1(fields, fieldName, currentFieldIndex, i) ==
    IF i >= currentFieldIndex THEN NotFound
    ELSE LET f == fields[i] IN
         IF f.name = fieldName THEN Found("field", i, 0)
         ELSE IF f.kind = "bitfield" THEN
             LET m == findMemberV1(f, fieldName, i, 1) IN
             IF m.found THEN m ELSE findFieldLoopV1(fields, fieldName, currentFieldIndex, i + 1)
         ELSE findFieldLoopV1(fields, fieldName, currentFieldIndex, i + 1)

\* v1: findFieldByName(register, fieldName, currentFieldIndex)
findFieldByName(r, fieldName, currentFieldIndex) ==
    findFieldLoopV1(r.fields, fieldName, currentFieldIndex, 1)

RECURSIVE findMemberV2(_, _, _, _)
findMemberV2(f, fieldName, fi, k) ==
    IF k > Len(f.bits) THEN NotFound
    ELSE IF fieldName = f.name \o "_" \o f.bits[k].name THEN Found("bitfield_ref", fi, k)
    ELSE findMemberV2(f, fieldName, fi, k + 1)

RECURSIVE findFieldLoopV2(_, _, _, _)
findFieldLoopV2(fields, fieldName, currentFieldIndex, i) ==
    IF i >= currentFieldIndex THEN NotFound
    ELSE LET f == fields[i] IN
         IF f.name = fieldName /\ f.kind = "simple" THEN Found("field", i, 0)
         ELSE IF f.kind = "bitfield" THEN
             LET m == findMemberV2(f, fieldName, i, 1) IN
             IF m.found THEN m ELSE findFieldLoopV2(fields, fieldName, currentFieldIndex, i + 1)
         ELSE findFieldLoopV2(fields, fieldName, currentFieldIndex, i + 1)

\* v2: Register.FindFieldByName(fieldName, currentFieldIndex)
FindFieldByName(r, fieldName, currentFieldIndex) ==
    findFieldLoopV2(r.fields, fieldName, currentFieldIndex, 1)

\* the lookup called with the number of fields for the index of the array
resolveLengthAnywhere(v, r, fieldName, currentFieldIndex) ==
    IF v = "v1" THEN findFieldByName(r, fieldName, Len(r.fields) + 1)
    ELSE FindFieldByName(r, fieldName, Len(r.fields) + 1)

\* the lookup validation uses, by revision
resolveLength(v, r, fieldName, currentFieldIndex) ==
    IF v = "v1" THEN findFieldByName(r, fieldName, currentFieldIndex)
    ELSE FindFieldByName(r, fieldName, currentFieldIndex)

RECURSIVE arrayLoop(_, _, _)
arrayLoop(v, r, i) ==
    IF i > Len(r.fields) THEN NoErr
    ELSE LET f == r.fields[i] IN
         IF f.kind = "array" /\ f.size.k = "var" THEN
             IF v = "v1" /\ isUnsignedType(f.size.ref) THEN
                 ErrOf("type_in_variable", r.name, f.name, 0, f.size.ref)
             ELSE IF ~resolveLength(v, r, f.size.ref, i).found THEN
                 ErrOf("undefined_field", r.name, f.name, 0, f.size.ref)
             ELSE arrayLoop(v, r, i + 1)
         ELSE arrayLoop(v, r, i + 1)

validateArrays(v, r) == arrayLoop(v, r, 1)

\* the registers a register embeds: the type names of its register-reference
\* fields
Embeds(r) ==
    {r.fields[j].tname : j \in {k \in 1..Len(r.fields) :
                                  r.fields[k].kind = "simple" /\ IsRegisterRef(r.fields[k].tname)}}

\* the register named `to` is embedded by the register named `from`,
\* directly or through at most `steps` registers in between
RECURSIVE EmbedsWithin(_, _, _, _)
EmbedsWithin(regs, from, to, steps) ==
    \E i \in 1..Len(regs) :
       /\ regs[i].name = from
       /\ \/ to \in Embeds(regs[i])
          \/ /\ steps > 0
             /\ \E mid \in Embeds(regs[i]) : EmbedsWithin(regs, mid, to, steps - 1)

\* the check of the register references of register r with the test for a
\* circular dependency left out
RECURSIVE registerRefLoopNoCycle(_, _, _)
registerRefLoopNoCycle(regs, r, j) ==
    IF j > Len(r.fields) THEN NoErr
    ELSE LET f == r.fields[j] IN
         IF f.kind = "simple" /\ IsRegisterRef(f.tname) THEN
             IF \A i \in 1..Len(regs) : regs[i].name # f.tname THEN
                 ErrOf("undefined_register", r.name, f.name, 0, f.tname)
             ELSE registerRefLoopNoCycle(regs, r, j + 1)
         ELSE registerRefLoopNoCycle(regs, r, j + 1)

validateRegisterRefsNoCycle(v, regs, r) ==
    IF v = "v3" THEN registerRefLoopNoCycle(regs, r, 1) ELSE NoErr

\* the check of the register references of register r, field by field: the
\* referenced register must exist in the device, and circular dependencies,
\* direct or indirect, are not allowed
RECURSIVE registerRefLoop(_, _, _)
registerRefLoop(regs, r, j) ==
    IF j > Len(r.fields) THEN NoErr
    ELSE LET f == r.fields[j] IN
         IF f.kind = "simple" /\ IsRegisterRef(f.tname) THEN
             IF \A i \in 1..Len(regs) : regs[i].name # f.tname THEN
                 ErrOf("undefined_register", r.name, f.name, 0, f.tname)
             ELSE IF f.tname = r.name \/ EmbedsWithin(regs, f.tname, r.name, Len(regs)) THEN
                 ErrOf("circular_dependency", r.name, f.name, 0, f.tname)
             ELSE registerRefLoop(regs, r, j + 1)
         ELSE registerRefLoop(regs, r, j + 1)

\* only the parser with register references (ver = "v3") has the check
validateRegisterRefs(v, regs, r) ==
    IF v = "v3" THEN registerRefLoop(regs, r, 1) ELSE NoErr

\* registerLoop without `registerNumbers[register.Number] = true`
RECURSIVE registerLoopNoRecord(_, _, _, _)
registerLoopNoRecord(v, regs, i, registerNumbers) ==
    IF i > Len(regs) THEN [err |-> NoErr, regs |-> regs]
    ELSE LET r == regs[i] IN
         IF r.number \in registerNumbers THEN
             [err |-> ErrOf("duplicate_register_number", "", "", r.number, ""), regs |-> regs]
         ELSE LET s == validateAndUpdateFieldSpecifiers(r) IN
              IF s.err.kind # "none" THEN [err |-> s.err, regs |-> regs]
              ELSE LET b == validateBitFields(s.reg) IN
                   IF b.kind # "none" THEN [err |-> b, regs |-> regs]
                   ELSE LET a == validateArrays(v, s.reg) IN
                        IF a.kind # "none" THEN [err |-> a, regs |-> regs]
                        ELSE LET c == validateRegisterRefs(v, regs, s.reg) IN
                             IF c.kind # "none" THEN [err |-> c, regs |-> regs]
                             ELSE registerLoopNoRecord(v, [regs EXCEPT ![i] = s.reg],
                                                       i + 1, registerNumbers)

\* registerLoop with the arrays validated before the bit fields
RECURSIVE registerLoopArraysFirst(_, _, _, _)
registerLoopArraysFirst(v, regs, i, registerNumbers) ==
    IF i > Len(regs) THEN [err |-> NoErr, regs |-> regs]
    ELSE LET r == regs[i] IN
         IF r.number \in registerNumbers THEN
             [err |-> ErrOf("duplicate_register_number", "", "", r.number, ""), regs |-> regs]
         ELSE LET s == validateAndUpdateFieldSpecifiers(r) IN
              IF s.err.kind # "none" THEN [err |-> s.err, regs |-> regs]
              ELSE LET a == validateArrays(v, s.reg) IN
                   IF a.kind # "none" THEN [err |-> a, regs |-> regs]
                   ELSE LET b == validateBitFields(s.reg) IN
                        IF b.kind # "none" THEN [err |-> b, regs |-> regs]
                        ELSE LET c == validateRegisterRefs(v, regs, s.reg) IN
                             IF c.kind # "none" THEN [err |-> c, regs |-> regs]
                             ELSE registerLoopArraysFirst(v, [regs EXCEPT ![i] = s.reg],
                                                          i + 1, registerNumbers \cup {r.number})

\* the loop over the registers in Parse: number, specifiers, bit fields, arrays
RECURSIVE registerLoop(_, _, _, _)
registerLoop(v, regs, i, registerNumbers) ==
    IF i > Len(regs) THEN [err |-> NoErr, regs |-> regs]
    ELSE LET r == regs[i] IN
         IF r.number \in registerNumbers THEN
             [err |-> ErrOf("duplicate_register_number", "", "", r.number, ""), regs |-> regs]
         ELSE LET s == validateAndUpdateFieldSpecifiers(r) IN
              IF s.err.kind # "none" THEN [err |-> s.err, regs |-> regs]
              ELSE LET b == validateBitFields(s.reg) IN
                   IF b.kind # "none" THEN [err |-> b, regs |-> regs]
                   ELSE LET a == validateArrays(v, s.reg) IN
                        IF a.kind # "none" THEN [err |-> a, regs |-> regs]
                        ELSE LET c == validateRegisterRefs(v, regs, s.reg) IN
                             IF c.kind # "none" THEN [err |-> c, regs |-> regs]
                             ELSE registerLoop(v, [regs EXCEPT ![i] = s.reg], i + 1,
                                               registerNumbers \cup {r.number})

\* Parse returning, with the error, the device as far as it was validated
ParsePartial(v, d) ==
    IF ~ParseString(v, d) THEN
        [device |-> NoDevice, err |-> ErrOf("syntax", "", "", 0, "")]
    ELSE LET res == registerLoop(v, d, 1, {}) IN
         [device |-> DeviceOf(res.regs), err |-> res.err]

Parse(v, d) ==
    IF ~ParseString(v, d) THEN
        [device |-> NoDevice, err |-> ErrOf("syntax", "", "", 0, "")]
    ELSE LET res == registerLoop(v, d, 1, {}) IN
         IF res.err.kind # "none" THEN [device |-> NoDevice, err |-> res.err]
         ELSE [device |-> DeviceOf(res.regs), err |-> NoErr]

-----------------------------------------------------------------------------
(* Bit masks.  A uint64 is the set of the positions of its one bits, so    *)
(* that shifts and the decrement wrap as they do in 64-bit arithmetic.     *)

WordBits == 64

Word == 0..(WordBits - 1)

\* x << n on uint64: bits shifted past the top are lost, and a count of
\* WordBits or more gives 0
ShiftLeft(x, n) == {b + n : b \in x} \cap Word

\* x << n with the count taken modulo the word size
ShiftLeftWrap(x, n) == {b + (n % WordBits) : b \in x} \cap Word

\* x >> n on uint64
ShiftRight(x, n) == {b - n : b \in x} \cap Word

LowestBit(x) == CHOOSE b \in x : \A c \in x : b <= c

\* x - 1 on uint64: 0 - 1 wraps to the all-ones word
Decrement(x) ==
    IF x = {} THEN Word
    ELSE (x \ {LowestBit(x)}) \cup {b \in Word : b < LowestBit(x)}

\* bitMask with a shift that wraps its count
bitMaskWrap(start, end) ==
    ShiftLeft(Decrement(ShiftLeftWrap({0}, end - start + 1)), start)

\* bitMask(start, end): (uint64(1)<<width - 1) << start
bitMask(start, end) ==
    ShiftLeft(Decrement(ShiftLeft({0}, end - start + 1)), start)

\* fmt's %X of a uint64: upper-case hexadecimal without leading zeros
HexDigit == <<"0", "1", "2", "3", "4", "5", "6", "7",
              "8", "9", "A", "B", "C", "D", "E", "F">>
Nibble(x, k) ==
    (IF 4 * k \in x THEN 1 ELSE 0) + (IF 4 * k + 1 \in x THEN 2 ELSE 0)
        + (IF 4 * k + 2 \in x THEN 4 ELSE 0) + (IF 4 * k + 3 \in x THEN 8 ELSE 0)
RECURSIVE HexFrom(_, _)
HexFrom(x, k) ==
    IF k < 0 THEN "" ELSE HexDigit[Nibble(x, k) + 1] \o HexFrom(x, k - 1)
TopNibble(x) == CHOOSE k \in 0..15 : Nibble(x, k) # 0 /\ \A j \in (k + 1)..15 : Nibble(x, j) = 0
FormatHex(x) == IF x = {} THEN "0" ELSE HexFrom(x, TopNibble(x))

-----------------------------------------------------------------------------
(* The C++ generator (pkg/generator/arduino-cpp.go): which fields of a     *)
(* register each of the generated functions handles.                       *)

\* getFieldSpecifier: the field's specifier, else the register's, else "rw"
getFieldSpecifier(field, register) ==
    IF field.spec # "" THEN field.spec
    ELSE IF register.spec # "" THEN register.spec
    ELSE "rw"

hasReadFields(register) ==
    \E i \in 1..Len(register.fields) :
        getFieldSpecifier(register.fields[i], register) \in {"r", "rw"}

hasWriteFields(register) ==
    \E i \in 1..Len(register.fields) :
        getFieldSpecifier(register.fields[i], register) \in {"w", "rw"}

IsReadField(register, f) == getFieldSpecifier(f, register) \in {"r", "rw"}
IsWriteField(register, f) == getFieldSpecifier(f, register) \in {"w", "rw"}

\* getReadFields with `spec == "r"` for `spec == "r" || spec == "rw"`
getReadFieldsMarked(register) ==
    SelectSeq(register.fields, LAMBDA f : getFieldSpecifier(f, register) = "r")

\* getReadFields / getWriteFields: append in the order of register.Fields
getReadFields(register) ==
    SelectSeq(register.fields, LAMBDA f : IsReadField(register, f))
getWriteFields(register) ==
    SelectSeq(register.fields, LAMBDA f : IsWriteField(register, f))

\* the names of the fields send_read_data / send_write_data encode, in the
\* order of the statements the template emits; none when the register has
\* no field of the view (the function is `return 0;`)
sendReadFields(register) ==
    IF hasReadFields(register)
    THEN [i \in 1..Len(getReadFields(register)) |-> getReadFields(register)[i].name]
    ELSE << >>
sendWriteFields(register) ==
    IF hasWriteFields(register)
    THEN [i \in 1..Len(getWriteFields(register)) |-> getWriteFields(register)[i].name]
    ELSE << >>

\* the magnitude of a negative int: the two's complement of its 64 bits
Negate(x) ==
    LET y == Word \ x
        z == CHOOSE b \in Word : b \notin y /\ \A c \in Word : c < b => c \in y
    IN  (y \ {b \in Word : b < z}) \cup {z}

\* fmt.Sprintf("0x%02X", v) for an int v of 64 bits: a minus sign and the
\* magnitude for a negative v, at least two digits otherwise
Sprintf02X(x) ==
    "0x" \o (IF (WordBits - 1) \in x THEN "-" \o FormatHex(Negate(x))
             ELSE IF x = {} \/ TopNibble(x) = 0 THEN "0" \o FormatHex(x)
             ELSE FormatHex(x))

\* toBitMask(start, end): the text of 1<<start for a single bit, of the OR
\* of 1<<i for i in start..end otherwise; bits is the int that is formatted
toBitMask(bm) ==
    LET actualEnd == IF bm.hasEnd THEN bm.end ELSE bm.start
        mask == IF actualEnd = bm.start THEN ShiftLeft({0}, bm.start)
                ELSE UNION {ShiftLeft({0}, i) : i \in bm.start..actualEnd}
    IN  [bits |-> mask, text |-> Sprintf02X(mask)]

\* "static constexpr uint8_t <field>_<member>_bm = <toBitMask>;"
cppBitMask(f, bm) ==
    [Name |-> f.name \o "_" \o bm.name \o "_bm", Type |-> "uint8",
     Text |-> toBitMask(bm).text, Init |-> toBitMask(bm).bits]

\* findFieldByName of the generator: the first field of the register with
\* the name, wherever it is declared; 0 if there is none
genFindFieldByName(register, fieldName) ==
    IF \E i \in 1..Len(register.fields) : register.fields[i].name = fieldName
    THEN CHOOSE i \in 1..Len(register.fields) :
            /\ register.fields[i].name = fieldName
            /\ \A j \in 1..(i - 1) : register.fields[j].name # fieldName
    ELSE 0

\* the C++ expression for the length of a variable array: k is "field" for
\* <field>, "masked" for (<field> & <field>_<member>_bm), "shifted" for
\* ((<field> & <field>_<member>_bm) >> <start>), "bitmask" for
\* <field>_<member>_bm and "" for the empty string
NoSizeExpr == [k |-> "", fi |-> 0, mi |-> 0]
SizeExpr(k, fi, mi) == [k |-> k, fi |-> fi, mi |-> mi]

RECURSIVE genMemberLoop(_, _, _, _)
genMemberLoop(f, memberName, fi, k) ==
    IF k > Len(f.bits) THEN NoSizeExpr
    ELSE LET bm == f.bits[k] IN
         IF bm.name = memberName THEN SizeExpr("masked", fi, k)
         ELSE IF memberName = f.name \o "_" \o bm.name THEN SizeExpr("shifted", fi, k)
         ELSE IF memberName = f.name \o "_" \o bm.name \o "_bm" THEN SizeExpr("bitmask", fi, k)
         ELSE genMemberLoop(f, memberName, fi, k + 1)

RECURSIVE genFieldLoop(_, _, _)
genFieldLoop(register, memberName, i) ==
    IF i > Len(register.fields) THEN NoSizeExpr
    ELSE LET f == register.fields[i]
             m == IF f.kind = "bitfield" THEN genMemberLoop(f, memberName, i, 1)
                  ELSE NoSizeExpr
         IN  IF m.k # "" THEN m ELSE genFieldLoop(register, memberName, i + 1)

findBitFieldMemberByName(register, memberName) == genFieldLoop(register, memberName, 1)

\* getArraySizeField / getArraySizeFieldExpression for a variable array:
\* a field of that name first, a bit member otherwise
getArraySizeField(register, arrayField) ==
    IF genFindFieldByName(register, arrayField.size.ref) # 0
    THEN SizeExpr("field", genFindFieldByName(register, arrayField.size.ref), 0)
    ELSE findBitFieldMemberByName(register, arrayField.size.ref)

\* the expressions of the variable arrays of a register, by field index
sizeExpressions(register) ==
    [i \in {j \in 1..Len(register.fields) :
                register.fields[j].kind = "array" /\ register.fields[j].size.k = "var"}
        |-> getArraySizeField(register, register.fields[i])]

\* the C++ output for a register
\* "static constexpr uint8_t Reg_<Name>_ID = <Number>;": ID is what the
\* constant holds, the number converted to uint8_t
CppRegister(register) ==
    [Name |-> register.name,
     ID |-> register.number % 256,
     send_read_data |-> sendReadFields(register),
     send_write_data |-> sendWriteFields(register),
     size |-> sizeExpressions(register)]

\* Generate of the C++ generator
GenerateArduinoCpp(dev) ==
    [backend |-> "cpp",
     Registers |-> [i \in 1..Len(dev.registers) |-> CppRegister(dev.registers[i])]]

NoCode == [backend |-> "none", Registers |-> << >>]

-----------------------------------------------------------------------------
(* The Go generator (GenerateGo).  The lines of generated code that        *)
(* GenerateGo builds with fmt.Sprintf are kept as records: a statement     *)
(* [op, f, n, size, elems] and an expression [k, f, mask, start, size].    *)
(* The template's keys .fields, .id and .tp are read as the members        *)
(* Fields, ID and Type of GoRegister, GoConstant and GoField.              *)

toGoTypes(typ) == IF typ \in SimpleTypeNames THEN typ ELSE "interface{}"

typeSize(goType) ==
    CASE goType \in {"int8", "uint8"}              -> 1
      [] goType \in {"int16", "uint16"}            -> 2
      [] goType \in {"int32", "uint32", "float32"} -> 4
      [] goType \in {"int64", "uint64", "float64"} -> 8
      [] OTHER                                     -> 0

\* the value of a digit string in a base
RECURSIVE DigitsValue(_, _, _)
DigitsValue(digits, base, acc) ==
    IF digits = << >> THEN acc
    ELSE DigitsValue(Tail(digits), base, acc * base + Head(digits))

\* the token as text, as "%s" writes it into the generated code
RECURSIVE DigitsText(_)
DigitsText(digits) ==
    IF digits = << >> THEN ""
    ELSE (IF Head(digits) < 10 THEN ToString(Head(digits))
          ELSE <<"A", "B", "C", "D", "E", "F">>[Head(digits) - 9]) \o DigitsText(Tail(digits))
LitText(lit) == lit.prefix \o DigitsText(lit.digits)

\* strconv.Atoi: base 10 and no prefix; 0 and an error otherwise
Atoi(lit) ==
    IF lit.prefix = "" THEN [val |-> DigitsValue(lit.digits, 10, 0), ok |-> TRUE]
    ELSE [val |-> 0, ok |-> FALSE]

\* an integer literal of the generated Go code: the base comes from the
\* prefix, and a leading 0 makes the literal octal
IntLiteral(lit) ==
    CASE lit.prefix = "0x" -> DigitsValue(lit.digits, 16, 0)
      [] lit.prefix = "0b" -> DigitsValue(lit.digits, 2, 0)
      [] lit.prefix = "" /\ Len(lit.digits) > 1 /\ lit.digits[1] = 0 ->
            DigitsValue(lit.digits, 8, 0)
      [] OTHER -> DigitsValue(lit.digits, 10, 0)

\* a bit member whose Start and End are kept as the Int tokens of the
\* schema (the later parser revisions keep the text); start and end are the
\* numbers StartBit() and EndBit() give for them: strconv.ParseInt with
\* base 0 reads a token as the Go compiler reads a literal
BitMemberLit(name, startLit, endLit) ==
    [name |-> name, start |-> IntLiteral(startLit), hasEnd |-> TRUE,
     end |-> IntLiteral(endLit), text |-> [start |-> startLit, end |-> endLit]]

\* strconv.Atoi(bm.Start) and strconv.Atoi(*bm.End) with the error dropped
AtoiStart(bm) == IF "text" \in DOMAIN bm THEN Atoi(bm.text.start).val ELSE bm.start
AtoiEnd(bm) ==
    IF ~bm.hasEnd THEN AtoiStart(bm)
    ELSE IF "text" \in DOMAIN bm THEN Atoi(bm.text.end).val ELSE bm.end

NoExpr == [k |-> "", f |-> "", mask |-> "", start |-> 0, size |-> 0]
\* "r.<f>.BufSize4Read()" and "r.<f>.BufSize4Write()"
CallExpr(fn, f) == [k |-> fn, f |-> f, mask |-> "", start |-> 0, size |-> 0]
\* "(int(r.<f>) * <size>)"
FieldExpr(f, size) == [k |-> "field", f |-> f, mask |-> "", start |-> 0, size |-> size]
\* "(int((r.<f>&<mask>)>><start>) * <size>)"
BitsExpr(f, mask, start, size) ==
    [k |-> "bits", f |-> f, mask |-> mask, start |-> start, size |-> size]

\* the nested call with SerializeRead in both views
CallStmtRead(fn, f) ==
    [op |-> "SerializeRead", f |-> f, n |-> << >>, size |-> 0, elems |-> NoExpr]

\* "if n, err := r.<f>.SerializeRead(buf[offset:]); ... offset += n"
CallStmt(fn, f) == [op |-> fn, f |-> f, n |-> << >>, size |-> 0, elems |-> NoExpr]
\* "if err := putNumber(buf[offset:], r.<f>); ... offset += <size>"
PutNumberStmt(f, size) ==
    [op |-> "putNumber", f |-> f, n |-> << >>, size |-> size, elems |-> NoExpr]
\* "if err := putSlice(buf[offset:], r.<f>[:]); ... offset += <n> * <size>"
PutArrayStmt(f, n, size) ==
    [op |-> "putArray", f |-> f, n |-> n, size |-> size, elems |-> NoExpr]
\* "{ elems := <elems>; if err := putSlice(buf[offset:], r.<f>); ...
\*    offset += int(elems) * <size> }"
PutSliceStmt(f, elems, size) ==
    [op |-> "putSlice", f |-> f, n |-> << >>, size |-> size, elems |-> elems]
\* "if len(r.<f>) != int(<elems>) { return fmt.Errorf(...) }"
CheckStmt(f, elems) ==
    [op |-> "check", f |-> f, n |-> << >>, size |-> 0, elems |-> elems]

\* "<reg>_<field>_<member>_bm", the name of a mask constant
MaskName(reg, f, bm) == reg \o "_" \o f \o "_" \o bm \o "_bm"

\* the constants of a bit field: "const <name> <base> = 0x%X"
BitMasksOf(reg, f) ==
    [k \in 1..Len(f.bits) |->
        [Name |-> MaskName(reg.name, f.name, f.bits[k].name),
         Type |-> toGoTypes(f.tname),
         Value |-> bitMask(AtoiStart(f.bits[k]), AtoiEnd(f.bits[k]))]]

\* IsWritable without the test of the specifier
IsWritableAll(f) == TRUE

\* gf.IsReadable, gf.IsWritable: the field's specifier after Parse
IsReadable(f) == f.spec = "r" \/ f.spec = ""
IsWritable(f) == f.spec = "w" \/ f.spec = ""

\* deserCode, statement by statement: getNumber for putNumber, getSlice for
\* putSlice (after make for a variable array), Deserialize* for Serialize*
DeserOp(op) ==
    CASE op = "putNumber"      -> "getNumber"
      [] op = "putArray"       -> "getArray"
      [] op = "putSlice"       -> "getSlice"
      [] op = "SerializeRead"  -> "DeserializeRead"
      [] op = "SerializeWrite" -> "DeserializeWrite"

deserCode(serCode) == [k \in 1..Len(serCode) |-> [serCode[k] EXCEPT !.op = DeserOp(@)]]

GoFieldOf(f, tp, masks, ser, exprR, exprW, checks) ==
    [Name |-> f.name, Type |-> tp, BitMasks |-> masks,
     IsReadable |-> IsReadable(f), IsWritable |-> IsWritable(f),
     SerializeReadData |-> IF IsReadable(f) THEN ser[1] ELSE << >>,
     SerializeWriteData |-> IF IsWritable(f) THEN ser[2] ELSE << >>,
     DeserializeReadData |-> IF IsReadable(f) THEN deserCode(ser[1]) ELSE << >>,
     DeserializeWriteData |-> IF IsWritable(f) THEN deserCode(ser[2]) ELSE << >>,
     BufSize4ReadExpr |-> IF IsReadable(f) THEN exprR ELSE NoExpr,
     BufSize4WriteExpr |-> IF IsWritable(f) THEN exprW ELSE NoExpr,
     ConsistencyChecks |-> checks]

\* the switch of GenerateGo on the type of field i of reg: the GoField and
\* what the field adds to BufSize4ReadConst and BufSize4WriteConst
goFieldCase(reg, i) ==
    LET f == reg.fields[i] IN
    CASE f.kind = "simple" /\ IsRegisterRef(f.tname) ->
            [gf |-> GoFieldOf(f, f.tname, << >>,
                              << <<CallStmt("SerializeRead", f.name)>>,
                                 <<CallStmt("SerializeWrite", f.name)>> >>,
                              CallExpr("BufSize4Read", f.name),
                              CallExpr("BufSize4Write", f.name), << >>),
             size |-> 0]
      [] f.kind = "bitfield" ->
            LET size == typeSize(toGoTypes(f.tname)) IN
            [gf |-> GoFieldOf(f, toGoTypes(f.tname), BitMasksOf(reg, f),
                              << <<PutNumberStmt(f.name, size)>>,
                                 <<PutNumberStmt(f.name, size)>> >>,
                              NoExpr, NoExpr, << >>),
             size |-> size]
      [] f.kind = "array" /\ f.size.k = "const" ->
            LET elemSize == typeSize(toGoTypes(f.tname)) IN
            \* sz is the token as written; szInt, _ := strconv.Atoi(sz)
            [gf |-> GoFieldOf(f, "[" \o LitText(f.size.n) \o "]" \o toGoTypes(f.tname), << >>,
                              << <<PutArrayStmt(f.name, f.size.n, elemSize)>>,
                                 <<PutArrayStmt(f.name, f.size.n, elemSize)>> >>,
                              NoExpr, NoExpr, << >>),
             size |-> Atoi(f.size.n).val * elemSize]
      [] f.kind = "array" /\ f.size.k = "var" ->
            LET elemSize == typeSize(toGoTypes(f.tname))
                refField == f.size.ref
                \* fld, bm := reg.FindFieldByName(refField, len(gr.Fields))
                found == FindFieldByName(reg, refField, i)
                elems == IF found.found /\ found.mi # 0
                         THEN LET fld == reg.fields[found.fi]
                                  bm == fld.bits[found.mi]
                              IN  BitsExpr(fld.name, MaskName(reg.name, fld.name, bm.name),
                                           bm.start, elemSize)
                         ELSE FieldExpr(refField, elemSize)
            IN  [gf |-> GoFieldOf(f, "[]" \o toGoTypes(f.tname), << >>,
                                  << <<PutSliceStmt(f.name, elems, elemSize)>>,
                                     <<PutSliceStmt(f.name, elems, elemSize)>> >>,
                                  elems, elems, <<CheckStmt(f.name, elems)>>),
                 size |-> 0]
      [] f.kind = "simple" ->
            LET size == typeSize(toGoTypes(f.tname)) IN
            [gf |-> GoFieldOf(f, toGoTypes(f.tname), << >>,
                              << <<PutNumberStmt(f.name, size)>>,
                                 <<PutNumberStmt(f.name, size)>> >>,
                              NoExpr, NoExpr, << >>),
             size |-> size]
      [] OTHER ->
            [gf |-> GoFieldOf(f, "interface{}", << >>, << << >>, << >> >>,
                              NoExpr, NoExpr, << >>),
             size |-> 0]

\* the loop of GenerateGo over the fields of a register
RECURSIVE goFieldLoop(_, _, _)
goFieldLoop(reg, i, gr) ==
    IF i > Len(reg.fields) THEN gr
    ELSE LET c == goFieldCase(reg, i) IN
         goFieldLoop(reg, i + 1,
            [gr EXCEPT
               !.Fields = Append(@, c.gf),
               !.BufSize4ReadConst = IF c.gf.IsReadable THEN @ + c.size ELSE @,
               !.BufSize4WriteConst = IF c.gf.IsWritable THEN @ + c.size ELSE @])

\* uint8(reg.Number())
Uint8(n) == n % 256

GoRegisterOf(reg) ==
    goFieldLoop(reg, 1,
        [Name |-> reg.name, ID |-> Uint8(reg.number), Fields |-> << >>,
         BufSize4ReadConst |-> 0, BufSize4WriteConst |-> 0])

GenerateGo(dev) ==
    [backend |-> "go",
     Registers |-> [i \in 1..Len(dev.registers) |-> GoRegisterOf(dev.registers[i])]]

MaxLen == 2   \* the largest length of a variable array
BufLen == 12  \* the length of the buffer handed to a serializer

Views == {"Read", "Write"}

\* the bits of a number
IntBits(n) == {b \in 0..30 : (n \div 2^b) % 2 = 1}

\* a buffer no byte of which has been written
FreshBuf == [i \in 1..BufLen |-> -1]

-----------------------------------------------------------------------------
(* The generated Go code, run on a register value.  A value of a register  *)
(* is a function from field names to values: an integer is the set of its  *)
(* one bits, an array a sequence of integers, an embedded register the     *)
(* value of that register.  A buffer is a sequence of bytes.               *)

\* the number a set of bits stands for (below 2^31)
RECURSIVE IntOf(_)
IntOf(w) ==
    IF w = {} THEN 0
    ELSE LET b == CHOOSE c \in w : TRUE IN 2^b + IntOf(w \ {b})

\* the bytes of a k-byte integer, least significant first
LittleEndian(w, k) ==
    [i \in 1..k |-> IntOf(ShiftRight(w, 8 * (i - 1)) \cap 0..7)]

\* byte i (from 1, most significant first) of a k-byte integer:
\* binary.BigEndian.PutUint16/32/64, and byte(v) for k = 1
BigEndian(w, k) ==
    [i \in 1..k |-> IntOf(ShiftRight(w, 8 * (k - i)) \cap 0..7)]

RECURSIVE BigEndianAll(_, _)
BigEndianAll(s, k) ==
    IF s = << >> THEN << >> ELSE BigEndian(Head(s), k) \o BigEndianAll(Tail(s), k)

\* b[offset:] = bytes...
WriteAt(buf, offset, bytes) ==
    [i \in 1..Len(buf) |->
        IF offset < i /\ i <= offset + Len(bytes) THEN bytes[i - offset] ELSE buf[i]]

\* the register of the generated package with the given type name
GoRegisterNamed(gd, name) ==
    gd.Registers[CHOOSE i \in 1..Len(gd.Registers) : gd.Registers[i].Name = name]

GoFieldNamed(gr, name) ==
    gr.Fields[CHOOSE j \in 1..Len(gr.Fields) : gr.Fields[j].Name = name]

\* the value of the package-level constant with the given name
BitMasksIn(gr) ==
    UNION {{gr.Fields[j].BitMasks[k] : k \in 1..Len(gr.Fields[j].BitMasks)} :
           j \in 1..Len(gr.Fields)}
AllBitMasks(gd) == UNION {BitMasksIn(gd.Registers[i]) : i \in 1..Len(gd.Registers)}
MaskValue(gd, name) == (CHOOSE c \in AllBitMasks(gd) : c.Name = name).Value

\* int(r.<f>) and int((r.<f>&<mask>)>><start>)
EvalElems(gd, val, e) ==
    IF e.k = "bits"
    THEN IntOf(ShiftRight(val[e.f] \cap MaskValue(gd, e.mask), e.start))
    ELSE IntOf(val[e.f])

\* BufSize4Read and BufSize4Write of the generated code:
\*   size := <Const>; size += <Expr> for each field of the view with an Expr
RECURSIVE BufSize4(_, _, _, _)
RECURSIVE bufSizeLoop(_, _, _, _, _, _)
bufSizeLoop(view, gd, gr, val, j, size) ==
    IF j > Len(gr.Fields) THEN size
    ELSE LET gf == gr.Fields[j]
             inView == IF view = "Read" THEN gf.IsReadable ELSE gf.IsWritable
             e == IF view = "Read" THEN gf.BufSize4ReadExpr ELSE gf.BufSize4WriteExpr
         IN  IF ~inView \/ e = NoExpr THEN bufSizeLoop(view, gd, gr, val, j + 1, size)
             ELSE IF e.k \in {"BufSize4Read", "BufSize4Write"}
             THEN bufSizeLoop(view, gd, gr, val, j + 1,
                     size + BufSize4(IF e.k = "BufSize4Read" THEN "Read" ELSE "Write",
                                     gd, GoRegisterNamed(gd, gf.Type), val[e.f]))
             ELSE bufSizeLoop(view, gd, gr, val, j + 1, size + EvalElems(gd, val, e) * e.size)

BufSize4(view, gd, gr, val) ==
    bufSizeLoop(view, gd, gr, val, 1,
                IF view = "Read" THEN gr.BufSize4ReadConst ELSE gr.BufSize4WriteConst)

\* Check with the checks of the readable fields only
RECURSIVE checkLoopReadable(_, _, _, _)
checkLoopReadable(gd, gr, val, j) ==
    IF j > Len(gr.Fields) THEN "nil"
    ELSE LET cs == gr.Fields[j].ConsistencyChecks IN
         IF cs # << >> /\ gr.Fields[j].IsReadable
                       /\ Len(val[cs[1].f]) # EvalElems(gd, val, cs[1].elems)
         THEN "length mismatch"
         ELSE checkLoopReadable(gd, gr, val, j + 1)

\* Check of the generated code: the checks of every field, in order
RECURSIVE checkLoop(_, _, _, _)
checkLoop(gd, gr, val, j) ==
    IF j > Len(gr.Fields) THEN "nil"
    ELSE LET cs == gr.Fields[j].ConsistencyChecks IN
         IF cs # << >> /\ Len(val[cs[1].f]) # EvalElems(gd, val, cs[1].elems)
         THEN "length mismatch"
         ELSE checkLoop(gd, gr, val, j + 1)

Check(gd, gr, val) == checkLoop(gd, gr, val, 1)

\* the statements of one view, in the order the template writes them
RECURSIVE ViewStatements(_, _, _)
ViewStatements(view, gr, j) ==
    IF j > Len(gr.Fields) THEN << >>
    ELSE (IF view = "Read" THEN gr.Fields[j].SerializeReadData
          ELSE gr.Fields[j].SerializeWriteData) \o ViewStatements(view, gr, j + 1)

\* the test without the comparison
TooSmallNever(room, need) == FALSE

\* "if len(b) < size" of putNumber and getNumber, "if len(b) < totalSize" of
\* putSlice and getSlice
TooSmall(room, need) == room < need

\* SerializeRead and SerializeWrite of the generated code on a buffer:
\* [n, err, buf] is the count returned, the error, and the buffer afterwards
RECURSIVE Serialize(_, _, _, _, _)
RECURSIVE serializeLoop(_, _, _, _, _, _, _)
serializeLoop(view, gd, gr, val, stmts, buf, offset) ==
    IF stmts = << >> THEN [n |-> offset, err |-> "nil", buf |-> buf]
    ELSE
      LET st == Head(stmts)
          rest == Tail(stmts)
          room == Len(buf) - offset   \* len(buf[offset:])
          short == [n |-> offset, err |-> "buffer too small", buf |-> buf]
      IN
      CASE st.op = "putNumber" ->
             \* putNumber: size := binary.Size(v)
             LET size == typeSize(GoFieldNamed(gr, st.f).Type) IN
             IF TooSmall(room, size) THEN short
             ELSE serializeLoop(view, gd, gr, val, rest,
                                WriteAt(buf, offset, BigEndian(val[st.f], size)),
                                offset + st.size)
        [] st.op = "putArray" ->
             \* putSlice on r.<f>[:], an array of <n> elements
             IF Len(val[st.f]) # 0 /\ TooSmall(room, st.size * Len(val[st.f])) THEN short
             ELSE serializeLoop(view, gd, gr, val, rest,
                                WriteAt(buf, offset, BigEndianAll(val[st.f], st.size)),
                                offset + IntLiteral(st.n) * st.size)
        [] st.op = "putSlice" ->
             IF Len(val[st.f]) # 0 /\ TooSmall(room, st.size * Len(val[st.f])) THEN short
             ELSE serializeLoop(view, gd, gr, val, rest,
                                WriteAt(buf, offset, BigEndianAll(val[st.f], st.size)),
                                offset + EvalElems(gd, val, st.elems) * st.size)
        [] OTHER ->
             \* r.<f>.SerializeRead(buf[offset:]) or r.<f>.SerializeWrite(buf[offset:])
             LET sub == Serialize(IF st.op = "SerializeRead" THEN "Read" ELSE "Write",
                                  gd, GoRegisterNamed(gd, GoFieldNamed(gr, st.f).Type),
                                  val[st.f], SubSeq(buf, offset + 1, Len(buf)))
                 buf2 == WriteAt(buf, offset, sub.buf)
             IN  IF sub.err # "nil" THEN [n |-> offset, err |-> sub.err, buf |-> buf2]
                 ELSE serializeLoop(view, gd, gr, val, rest, buf2, offset + sub.n)

Serialize(view, gd, gr, val, buf) ==
    IF Check(gd, gr, val) # "nil"
    THEN [n |-> 0, err |-> Check(gd, gr, val), buf |-> buf]
    ELSE serializeLoop(view, gd, gr, val, ViewStatements(view, gr, 1), buf, 0)

\* the bits of a byte, and T(binary.BigEndian.Uint16/32/64(b)), T(b[0]):
\* the integer whose k bytes, most significant first, are the given ones
ByteBits(b) == {i \in 0..7 : (b \div 2^i) % 2 = 1}

FromBigEndian(bytes) ==
    UNION {{i + 8 * (Len(bytes) - j) : i \in ByteBits(bytes[j])} : j \in 1..Len(bytes)}

\* getSlice: count integers of size bytes each, read from the start of b
FromBigEndianAll(b, size, count) ==
    [i \in 1..count |-> FromBigEndian(SubSeq(b, (i - 1) * size + 1, i * size))]

\* the statements of one view of the deserializer, in template order
RECURSIVE DeserializeStatements(_, _, _)
DeserializeStatements(view, gr, j) ==
    IF j > Len(gr.Fields) THEN << >>
    ELSE (IF view = "Read" THEN gr.Fields[j].DeserializeReadData
          ELSE gr.Fields[j].DeserializeWriteData) \o DeserializeStatements(view, gr, j + 1)

\* DeserializeRead and DeserializeWrite of the generated code run on the
\* register value val and the buffer buf: [n, err, val] is the count
\* returned, the error, and the register afterwards
RECURSIVE Deserialize(_, _, _, _, _)
RECURSIVE deserializeLoop(_, _, _, _, _, _, _)
deserializeLoop(view, gd, gr, val, stmts, buf, offset) ==
    IF stmts = << >> THEN [n |-> offset, err |-> "nil", val |-> val]
    ELSE
      LET st == Head(stmts)
          rest == Tail(stmts)
          room == Len(buf) - offset   \* len(buf[offset:])
          b == SubSeq(buf, offset + 1, Len(buf))
      IN
      CASE st.op = "getNumber" ->
             LET size == typeSize(GoFieldNamed(gr, st.f).Type) IN
             IF TooSmall(room, size) THEN [n |-> offset, err |-> "buffer too small", val |-> val]
             ELSE deserializeLoop(view, gd, gr,
                                  [val EXCEPT ![st.f] = FromBigEndian(SubSeq(b, 1, size))],
                                  rest, buf, offset + st.size)
        [] st.op = "getArray" ->
             \* getSlice on r.<f>[:], an array of <n> elements
             LET count == Len(val[st.f]) IN
             IF count # 0 /\ TooSmall(room, st.size * count)
             THEN [n |-> offset, err |-> "buffer too small", val |-> val]
             ELSE deserializeLoop(view, gd, gr,
                                  [val EXCEPT ![st.f] = FromBigEndianAll(b, st.size, count)],
                                  rest, buf, offset + IntLiteral(st.n) * st.size)
        [] st.op = "getSlice" ->
             \* elems := ...; r.<f> = make([]T, int(elems)); getSlice(...)
             LET count == EvalElems(gd, val, st.elems)
                 made == [val EXCEPT ![st.f] = [i \in 1..count |-> {}]]
             IN
             IF count # 0 /\ TooSmall(room, st.size * count)
             THEN [n |-> offset, err |-> "buffer too small", val |-> made]
             ELSE deserializeLoop(view, gd, gr,
                                  [val EXCEPT ![st.f] = FromBigEndianAll(b, st.size, count)],
                                  rest, buf, offset + count * st.size)
        [] OTHER ->
             \* r.<f>.DeserializeRead(buf[offset:]) or r.<f>.DeserializeWrite(buf[offset:])
             LET sub == Deserialize(IF st.op = "DeserializeRead" THEN "Read" ELSE "Write",
                                    gd, GoRegisterNamed(gd, GoFieldNamed(gr, st.f).Type),
                                    val[st.f], b)
                 val2 == [val EXCEPT ![st.f] = sub.val]
             IN  IF sub.err # "nil" THEN [n |-> offset, err |-> sub.err, val |-> val2]
                 ELSE deserializeLoop(view, gd, gr, val2, rest, buf, offset + sub.n)

Deserialize(view, gd, gr, val, buf) ==
    deserializeLoop(view, gd, gr, val, DeserializeStatements(view, gr, 1), buf, 0)

-----------------------------------------------------------------------------
(* The generated C++ code (arduinoCppTemplate), run on a register value.   *)
(* bigendian.h is not among the sources: bigendian::encode(p, x) is taken  *)
(* to store the sizeof(x) bytes of x at p, most significant first, and to  *)
(* return sizeof(x), which is the room the generated guard asks for.       *)

\* sizeof(toCppType(t)): int8_t .. uint64_t, float, double
sizeofCppType(tname) ==
    CASE tname \in {"int8", "uint8"}              -> 1
      [] tname \in {"int16", "uint16"}            -> 2
      [] tname \in {"int32", "uint32", "float32"} -> 4
      [] OTHER                                    -> 8

\* what a namespace-scope constant of the generated header holds: its
\* initialiser converted to the declared type, unless the initialiser is no
\* hexadecimal literal and the header is ill-formed
cppConstant(c) ==
    IF (WordBits - 1) \in c.Init THEN [wellFormed |-> FALSE, value |-> {}]
    ELSE [wellFormed |-> TRUE,
          value |-> {b \in c.Init : b < 8 * sizeofCppType(c.Type)}]

\* the left operand of the guard of a field's statement, less offset:
\* sizeof(T) for a scalar and a bit field, Constant * sizeof(T) for an array
cppGuardSize(f) ==
    IF f.kind = "array" THEN IntLiteral(f.size.n) * sizeofCppType(f.tname)
    ELSE sizeofCppType(f.tname)

\* the bytes bigendian::encode stores for a field
cppEncode(f, x) ==
    IF f.kind = "array" THEN BigEndianAll(x, sizeofCppType(f.tname))
    ELSE BigEndian(x, sizeofCppType(f.tname))

\* the value bigendian::decode reads for a field
cppDecode(f, b) ==
    IF f.kind = "array"
    THEN FromBigEndianAll(b, sizeofCppType(f.tname), IntLiteral(f.size.n))
    ELSE FromBigEndian(SubSeq(b, 1, sizeofCppType(f.tname)))

\* the fields send_<view>_data and receive_<view>_data have a statement for
cppViewFields(register, view) ==
    IF view = "Read"
    THEN (IF hasReadFields(register) THEN getReadFields(register) ELSE << >>)
    ELSE (IF hasWriteFields(register) THEN getWriteFields(register) ELSE << >>)

\* if (offset + <need> <= size)
Fits(offset, need, size) == offset + need <= size

\* send_read_data / send_write_data on a buffer of Len(buf) bytes: one
\* guarded statement per field, then `return offset`
RECURSIVE sendLoop(_, _, _, _)
sendLoop(fields, val, buf, offset) ==
    IF fields = << >> THEN [n |-> offset, buf |-> buf]
    ELSE LET f == Head(fields) IN
         IF Fits(offset, cppGuardSize(f), Len(buf))
         THEN sendLoop(Tail(fields), val,
                       WriteAt(buf, offset, cppEncode(f, val[f.name])),
                       offset + cppGuardSize(f))
         ELSE sendLoop(Tail(fields), val, buf, offset)

send_data(register, view, val, buf) ==
    sendLoop(cppViewFields(register, view), val, buf, 0)

\* receive_read_data / receive_write_data on a buffer of Len(buf) bytes
RECURSIVE receiveLoop(_, _, _, _)
receiveLoop(fields, val, buf, offset) ==
    IF fields = << >> THEN [n |-> offset, val |-> val]
    ELSE LET f == Head(fields) IN
         IF Fits(offset, cppGuardSize(f), Len(buf))
         THEN receiveLoop(Tail(fields),
                          [val EXCEPT ![f.name] =
                               cppDecode(f, SubSeq(buf, offset + 1, Len(buf)))],
                          buf, offset + cppGuardSize(f))
         ELSE receiveLoop(Tail(fields), val, buf, offset)

receive_data(register, view, val, buf) ==
    receiveLoop(cppViewFields(register, view), val, buf, 0)

-----------------------------------------------------------------------------
(* Actions.                                                                *)

DoParse ==
    /\ pc = "input"
    /\ LET res == Parse(ver, src) IN
       /\ device' = res.device
       /\ err' = res.err
    /\ pc' = "parsed"
    /\ UNCHANGED <<ver, src, code>>
    /\ UNCHANGED fnVars

\* Generate / GenerateGo on the device Parse returned
DoGenerate ==
    /\ pc = "parsed"
    /\ err.kind = "none"
    /\ code' = IF ver = "v1" THEN GenerateArduinoCpp(device) ELSE GenerateGo(device)
    /\ pc' = "generated"
    /\ UNCHANGED parseVars
    /\ UNCHANGED fnVars

\* the values a field of the generated struct can hold here
RECURSIVE RegisterValues(_, _)
FieldValues(dev, reg, f) ==
    CASE f.kind = "simple" /\ IsRegisterRef(f.tname) ->
            RegisterValues(dev, dev.registers[CHOOSE i \in 1..Len(dev.registers) :
                                                 dev.registers[i].name = f.tname])
      [] f.kind = "simple" ->
            IF \E j \in 1..Len(reg.fields) :
                  reg.fields[j].kind = "array" /\ reg.fields[j].size.ref = f.name
            THEN {IntBits(n) : n \in 0..MaxLen}
            ELSE {IntBits(IF typeSize(toGoTypes(f.tname)) = 1 THEN 129 ELSE 258)}
      [] f.kind = "bitfield" ->
            {{}, {f.bits[1].start + 1}, {0, f.bits[1].start + 1}}
      [] f.kind = "array" /\ f.size.k = "const" ->
            {[i \in 1..IntLiteral(f.size.n) |-> IntBits(i)]}
      [] OTHER ->
            {[i \in 1..n |-> IntBits(2 * i + 5)] : n \in 0..MaxLen}

\* the values of the generated struct of a register, as functions of the
\* field names
RECURSIVE registerValuesFrom(_, _, _)
registerValuesFrom(dev, reg, j) ==
    IF j > Len(reg.fields) THEN { << >> }
    ELSE {(reg.fields[j].name :> x) @@ v :
            x \in FieldValues(dev, reg, reg.fields[j]),
            v \in registerValuesFrom(dev, reg, j + 1)}

RegisterValues(dev, reg) == registerValuesFrom(dev, reg, 1)

\* the generated package compiles: putNumber and putSlice take integers only
\* (type Integer interface)
GoCompiles(dev) ==
    \A i \in 1..Len(dev.registers) : \A j \in 1..Len(dev.registers[i].fields) :
        toGoTypes(dev.registers[i].fields[j].tname) \notin FloatTypes

\* a call of BufSize4Read or BufSize4Write of a generated register
CallBufSize ==
    /\ pc = "generated"
    /\ code.backend = "go"
    /\ \E i \in 1..Len(code.Registers), view \in Views :
         \E val \in RegisterValues(device, device.registers[i]) :
            /\ arg' = [fn |-> "BufSize4" \o view, view |-> view, reg |-> i, val |-> val,
                       buf |-> << >>]
            /\ out' = [n |-> BufSize4(view, code, code.Registers[i], val), err |-> "nil",
                       buf |-> << >>]
    /\ pc' = "called"
    /\ UNCHANGED <<code>>
    /\ UNCHANGED parseVars

\* a call of SerializeRead or SerializeWrite of a generated register on a
\* buffer of BufLen bytes
CallSerialize ==
    /\ pc = "generated"
    /\ code.backend = "go"
    /\ GoCompiles(device)
    /\ \E i \in 1..Len(code.Registers), view \in Views :
         \E val \in RegisterValues(device, device.registers[i]) :
            /\ arg' = [fn |-> "Serialize" \o view, view |-> view, reg |-> i, val |-> val,
                       buf |-> FreshBuf]
            /\ out' = Serialize(view, code, code.Registers[i], val, FreshBuf)
    /\ pc' = "called"
    /\ UNCHANGED <<code>>
    /\ UNCHANGED parseVars

\* the zero value of the generated struct of a register: 0, a nil slice,
\* an array of zeros, the zero value of an embedded register
RECURSIVE ZeroValue(_, _)
RECURSIVE zeroValueFrom(_, _, _)
zeroValueFrom(dev, reg, j) ==
    IF j > Len(reg.fields) THEN << >>
    ELSE LET f == reg.fields[j]
             x == CASE f.kind = "simple" /\ IsRegisterRef(f.tname) ->
                         ZeroValue(dev, dev.registers[CHOOSE i \in 1..Len(dev.registers) :
                                                         dev.registers[i].name = f.tname])
                    [] f.kind = "array" /\ f.size.k = "const" ->
                         [i \in 1..IntLiteral(f.size.n) |-> {}]
                    [] f.kind = "array" -> << >>
                    [] OTHER -> {}
         IN  (f.name :> x) @@ zeroValueFrom(dev, reg, j + 1)

ZeroValue(dev, reg) == zeroValueFrom(dev, reg, 1)

\* a call of SerializeRead or SerializeWrite of a generated register on a
\* buffer of any length up to BufLen
CallSerializeInto ==
    /\ pc = "generated"
    /\ code.backend = "go"
    /\ GoCompiles(device)
    /\ \E i \in 1..Len(code.Registers), view \in Views, len \in 0..BufLen :
         \E val \in RegisterValues(device, device.registers[i]) :
            LET buf == [k \in 1..len |-> -1] IN
            /\ arg' = [fn |-> "Serialize" \o view, view |-> view, reg |-> i, val |-> val,
                       buf |-> buf]
            /\ out' = Serialize(view, code, code.Registers[i], val, buf)
    /\ pc' = "called"
    /\ UNCHANGED <<code>>
    /\ UNCHANGED parseVars

\* a call of DeserializeRead or DeserializeWrite of a fresh register of the
\* same type on the bytes a serializer of the same view has produced, or on
\* the first few of them
CallDeserialize ==
    /\ pc = "called"
    /\ arg.fn \in {"SerializeRead", "SerializeWrite"}
    /\ out.err = "nil"
    /\ \E len \in 0..out.n :
         LET buf == SubSeq(out.buf, 1, len)
             res == Deserialize(arg.view, code, code.Registers[arg.reg],
                                ZeroValue(device, device.registers[arg.reg]), buf)
         IN  /\ arg' = [fn |-> "Deserialize" \o arg.view, view |-> arg.view,
                        reg |-> arg.reg, val |-> arg.val, buf |-> buf, full |-> out.n]
             /\ out' = res
    /\ pc' = "decoded"
    /\ UNCHANGED <<code>>
    /\ UNCHANGED parseVars

\* a call of send_read_data or send_write_data of a generated struct on a
\* buffer of any size up to BufLen
CallSend ==
    /\ pc = "generated"
    /\ code.backend = "cpp"
    /\ \E i \in 1..Len(device.registers), view \in Views, size \in 0..BufLen :
         \E val \in RegisterValues(device, device.registers[i]) :
            LET buf == [k \in 1..size |-> -1] IN
            /\ arg' = [fn |-> "send", view |-> view, reg |-> i, val |-> val, buf |-> buf]
            /\ out' = send_data(device.registers[i], view, val, buf)
    /\ pc' = "called"
    /\ UNCHANGED <<code>>
    /\ UNCHANGED parseVars

\* a call of receive_read_data or receive_write_data of a zeroed struct on
\* the bytes the sender of the same view has filled a buffer with, or on
\* the first few of them
CallReceive ==
    /\ pc = "called"
    /\ arg.fn = "send"
    /\ out.n = Len(out.buf)
    /\ \E size \in 0..out.n :
         LET buf == SubSeq(out.buf, 1, size) IN
         /\ arg' = [fn |-> "receive", view |-> arg.view, reg |-> arg.reg,
                    val |-> arg.val, buf |-> buf, full |-> out.n]
         /\ out' = receive_data(device.registers[arg.reg], arg.view,
                                ZeroValue(device, device.registers[arg.reg]), buf)
    /\ pc' = "decoded"
    /\ UNCHANGED <<code>>
    /\ UNCHANGED parseVars

\* a call of bitMask on the range of a validated bit member
\* the expressions BufSize4Read or BufSize4Write adds up, in template order
RECURSIVE BufSizeExprs(_, _, _)
BufSizeExprs(view, gr, j) ==
    IF j > Len(gr.Fields) THEN << >>
    ELSE LET gf == gr.Fields[j]
             inView == IF view = "Read" THEN gf.IsReadable ELSE gf.IsWritable
             e == IF view = "Read" THEN gf.BufSize4ReadExpr ELSE gf.BufSize4WriteExpr
         IN  (IF inView /\ e # NoExpr THEN <<e>> ELSE << >>) \o BufSizeExprs(view, gr, j + 1)

\* what the body of a generated method of a register runs, one after the
\* other: expressions of the size function, statements of the others
FunctionBody(fn, view, gr) ==
    CASE fn = "BufSize4"  -> BufSizeExprs(view, gr, 1)
      [] fn = "Serialize" -> ViewStatements(view, gr, 1)
      [] OTHER            -> DeserializeStatements(view, gr, 1)

Methods == {"BufSize4", "Serialize", "Deserialize"}

\* the method of the embedded register an expression or statement calls
CalleeOf(x) == IF "op" \in DOMAIN x THEN x.op ELSE x.k
IsMethodCall(x) == \E fn \in Methods, view \in Views : CalleeOf(x) = fn \o view
CalleeMethod(x) == CHOOSE fn \in Methods : \E view \in Views : CalleeOf(x) = fn \o view
CalleeView(x) == CHOOSE view \in Views : CalleeOf(x) = CalleeMethod(x) \o view

\* an activation of a method of the generated register gr
Frame(fn, view, gr) ==
    [fn |-> fn, view |-> view, reg |-> gr.Name, body |-> FunctionBody(fn, view, gr)]

MaxDepth == 4      \* activations on the stack

\* a method of a generated register is called
StartCall ==
    /\ pc = "generated"
    /\ code.backend = "go"
    /\ \E i \in 1..Len(code.Registers), fn \in Methods, view \in Views :
          /\ arg' = [fn |-> fn \o view, view |-> view, reg |-> i]
          /\ out' = [stack |-> <<Frame(fn, view, code.Registers[i])>>, deep |-> 1]
    /\ pc' = "running"
    /\ UNCHANGED <<code>>
    /\ UNCHANGED parseVars

\* the running method goes past an expression or statement that calls no
\* method of a register
StepStatement ==
    /\ pc = "running"
    /\ LET top == out.stack[Len(out.stack)] IN
          /\ top.body # << >>
          /\ ~IsMethodCall(Head(top.body))
          /\ out' = [out EXCEPT !.stack[Len(out.stack)].body = Tail(top.body)]
    /\ UNCHANGED <<pc, arg, code>>
    /\ UNCHANGED parseVars

\* the running method calls the method of an embedded register
StepCall ==
    /\ pc = "running"
    /\ Len(out.stack) < MaxDepth
    /\ LET top == out.stack[Len(out.stack)] IN
          /\ top.body # << >>
          /\ IsMethodCall(Head(top.body))
          /\ LET x == Head(top.body)
                 gr == GoRegisterNamed(code, top.reg)
                 callee == GoRegisterNamed(code, GoFieldNamed(gr, x.f).Type)
                 rest == [out.stack EXCEPT ![Len(out.stack)].body = Tail(top.body)]
             IN  out' = [stack |-> Append(rest, Frame(CalleeMethod(x), CalleeView(x), callee)),
                         deep |-> IF Len(rest) + 1 > out.deep THEN Len(rest) + 1 ELSE out.deep]
    /\ UNCHANGED <<pc, arg, code>>
    /\ UNCHANGED parseVars

\* the running method returns, to its caller or to the program
StepReturn ==
    /\ pc = "running"
    /\ out.stack[Len(out.stack)].body = << >>
    /\ out' = [out EXCEPT !.stack = SubSeq(out.stack, 1, Len(out.stack) - 1)]
    /\ pc' = IF Len(out.stack) = 1 THEN "returned" ELSE "running"
    /\ UNCHANGED <<arg, code>>
    /\ UNCHANGED parseVars

\* the template's range over the members of a bit field: one mask constant
CallToBitMask ==
    /\ pc = "input"
    /\ LET c == cppBitMask(arg.f, arg.f.bits[1])
       IN  out' = [decl |-> c, held |-> cppConstant(c)]
    /\ pc' = "done"
    /\ UNCHANGED <<arg, code>>
    /\ UNCHANGED parseVars

CallBitMask ==
    /\ pc = "input"
    /\ out' = bitMask(arg.start, arg.end)
    /\ pc' = "done"
    /\ UNCHANGED <<arg, code>>
    /\ UNCHANGED parseVars

-----------------------------------------------------------------------------
(* Inputs.                                                                 *)

MaxNum == 2        \* register numbers are drawn from 1..MaxNum
MaxRegs == 4       \* registers per device in the register-number family

SeqsUpTo(S, n) == UNION {[1..k -> S] : k \in 0..n}

RegName(i) == "R" \o ToString(i)

\* a device from a sequence of register bodies [number, spec, fields]
DeviceFrom(bodies) ==
    [i \in 1..Len(bodies) |->
        RegisterOf(RegName(i), bodies[i].number, bodies[i].spec, bodies[i].fields)]

\* register bodies of the register-number family: one valid body and one
\* for each way a register can fail before or after the number check
NumBodies ==
    { [spec |-> "",  fields |-> <<SimpleField("a", "", "uint8")>>],
      [spec |-> "r", fields |-> <<SimpleField("a", "w", "uint8")>>],
      [spec |-> "",  fields |-> <<ArrayField("c", "", VarSize("n"), "uint8")>>],
      [spec |-> "",  fields |-> <<BitFieldOf("b", "", "float32", <<BitMember1("m", 0)>>)>>] }

NumRegs ==
    { [number |-> n, spec |-> b.spec, fields |-> b.fields] : n \in 1..MaxNum, b \in NumBodies }

NoArg == [start |-> 0, end |-> 0]
NoOut == {}

InitCommon ==
    /\ pc = "input"
    /\ device = NoDevice
    /\ err = NoErr
    /\ code = NoCode
    /\ arg = NoArg
    /\ out = NoOut

InitNum ==
    /\ ver \in Versions
    /\ src \in {DeviceFrom(b) : b \in SeqsUpTo(NumRegs, MaxRegs)}
    /\ InitCommon

NextParse == DoParse

\* the register-number family: Parse on devices of up to MaxRegs registers
SpecNum == InitNum /\ [][NextParse]_vars

-----------------------------------------------------------------------------
(* Register numbers.                                                       *)

Repeats(d, j) == \E i \in 1..(j - 1) : d[i].number = d[j].number
HasRepeat(d) == \E j \in 1..Len(d) : Repeats(d, j)
\* the first register, in declaration order, that repeats an earlier number
FirstRepeat(d) == CHOOSE j \in 1..Len(d) : Repeats(d, j) /\ \A k \in 1..(j - 1) : ~Repeats(d, k)

\* a register that passes the three per-register validations
RegisterPasses(v, r) ==
    LET s == validateAndUpdateFieldSpecifiers(r) IN
    /\ s.err.kind = "none"
    /\ validateBitFields(s.reg).kind = "none"
    /\ validateArrays(v, s.reg).kind = "none"

\* C1 as stated: Parse succeeds only if the register numbers are pairwise
\* distinct, and whenever two registers share a number Parse fails with
\* 'duplicate register number N', N the number of the first register that
\* repeats an earlier one.
C1_Original ==
    pc = "parsed" =>
        /\ (err.kind = "none" => ~HasRepeat(src))
        /\ (HasRepeat(src) =>
                /\ err.kind = "duplicate_register_number"
                /\ err.num = src[FirstRepeat(src)].number)

\* C1 amended: Parse succeeds only if the register numbers are pairwise
\* distinct; when two registers share a number, the schema is syntactically
\* valid and every register declared before the first repeating one passes
\* its own validation, Parse fails with 'duplicate register number N', N the
\* number of the first register that repeats an earlier one.
C1_DuplicateNumber ==
    pc = "parsed" =>
        /\ (err.kind = "none" => ~HasRepeat(src))
        /\ (/\ HasRepeat(src)
            /\ ParseString(ver, src)
            /\ \A i \in 1..(FirstRepeat(src) - 1) : RegisterPasses(ver, src[i])
            => /\ err.kind = "duplicate_register_number"
               /\ err.num = src[FirstRepeat(src)].number)

\* two different numbers are repeated and the first repeat is reported
C1_Witness ==
    /\ pc = "parsed"
    /\ Len(src) = 4
    /\ src[1].number # src[2].number
    /\ src[3].number = src[2].number
    /\ src[4].number = src[1].number
    /\ err.kind = "duplicate_register_number"
    /\ err.num = src[3].number

-----------------------------------------------------------------------------
(* Specifiers.                                                             *)

MaxFields == 2     \* fields per register in the specifier family

\* the j-th field of a register of the specifier family: a scalar, a bit
\* field, a fixed array, by position; the specifier is free
AccField(j, spec) ==
    CASE j = 1 -> SimpleField("f1", spec, "int16")
      [] j = 2 -> BitFieldOf("f2", spec, "uint8", <<BitMember("m", 0, 3)>>)
      [] OTHER -> ArrayField("f" \o ToString(j), spec, ConstSize(2), "uint8")

AccFieldLists ==
    { [j \in 1..Len(ss) |-> AccField(j, ss[j])] : ss \in SeqsUpTo(Specifiers, MaxFields) }

AccRegs ==
    { [number |-> n, spec |-> s, fields |-> fl] :
        n \in 1..MaxNum, s \in Specifiers, fl \in AccFieldLists }

InitAcc ==
    /\ ver \in Versions
    /\ src \in {DeviceFrom(b) : b \in [1..1 -> AccRegs] \cup [1..2 -> AccRegs]}
    /\ InitCommon

\* the specifier family: Parse on one or two registers with free specifiers
SpecAcc == InitAcc /\ [][NextParse]_vars

AccessKinds == {"write_in_readonly", "read_in_writeonly"}

\* the register forbids the specifier some field declares
Conflict(r) ==
    \E j \in 1..Len(r.fields) :
        \/ r.spec = "r" /\ r.fields[j].spec = "w"
        \/ r.spec = "w" /\ r.fields[j].spec = "r"

\* the first register Parse stops at in the specifier family, 0 if none
FirstBad(d) ==
    IF \E i \in 1..Len(d) : Repeats(d, i) \/ Conflict(d[i])
    THEN CHOOSE i \in 1..Len(d) :
            /\ Repeats(d, i) \/ Conflict(d[i])
            /\ \A k \in 1..(i - 1) : ~(Repeats(d, k) \/ Conflict(d[k]))
    ELSE 0

\* C2: a register is rejected with an accessibility error exactly when it is
\* declared r and holds a field marked w, or declared w and holds a field
\* marked r; the seven other combinations of register and field specifier
\* are accepted.
C2_AccessibilityConflict ==
    /\ \A i \in 1..Len(src) :
          (validateAndUpdateFieldSpecifiers(src[i]).err.kind \in AccessKinds) <=> Conflict(src[i])
    /\ pc = "parsed" =>
          LET k == FirstBad(src) IN
          /\ (err.kind \in AccessKinds) <=> (k > 0 /\ ~Repeats(src, k))
          /\ (err.kind \in AccessKinds) => err.reg = src[k].name
          /\ (err.kind = "none") <=> (k = 0)

\* a write-only register holding a field marked r is rejected, after a
\* register with every allowed combination was accepted
C2_Witness ==
    /\ pc = "parsed"
    /\ Len(src) = 2
    /\ src[1].spec = "r" /\ Len(src[1].fields) = 2
    /\ src[1].fields[1].spec = "r" /\ src[1].fields[2].spec = ""
    /\ src[2].spec = "w" /\ Len(src[2].fields) = 2
    /\ src[2].fields[1].spec = "w" /\ src[2].fields[2].spec = "r"
    /\ err.kind = "read_in_writeonly"
    /\ err.reg = src[2].name

\* C3: after a successful Parse a field declared without a specifier in a
\* register declared r or w carries the register's specifier, so every
\* field of such a register carries it; the fields of a register declared
\* without a specifier keep the specifier they were declared with.
C3_SpecifierInheritance ==
    (pc = "parsed" /\ err.kind = "none") =>
        /\ ~device.nil
        /\ Len(device.registers) = Len(src)
        /\ \A i \in 1..Len(src) :
              LET d == src[i]
                  r == device.registers[i]
              IN  /\ Len(r.fields) = Len(d.fields)
                  /\ r.spec = d.spec
                  /\ \A j \in 1..Len(d.fields) :
                        /\ (d.spec # "" /\ d.fields[j].spec = "") => r.fields[j].spec = d.spec
                        /\ d.spec # "" => r.fields[j].spec = d.spec
                        /\ d.spec = "" => r.fields[j].spec = d.fields[j].spec

\* a read-only register with an unmarked and a marked field, and a register
\* without a specifier that keeps r, w and none
C3_Witness ==
    /\ pc = "parsed" /\ err.kind = "none"
    /\ Len(src) = 2
    /\ src[1].spec = "r" /\ Len(src[1].fields) = 2
    /\ src[1].fields[1].spec = "" /\ src[1].fields[2].spec = "r"
    /\ device.registers[1].fields[1].spec = "r"
    /\ src[2].spec = "" /\ Len(src[2].fields) = 2
    /\ src[2].fields[1].spec = "w" /\ src[2].fields[2].spec = ""
    /\ device.registers[2].fields[2].spec = ""

-----------------------------------------------------------------------------
(* Bit fields.                                                             *)

\* the bit positions tried: the first bit, and the last bit and the first
\* bit past the end of each base type
BitPositions == {0} \cup UNION {{getTypeSizeInBits(t) - 1, getTypeSizeInBits(t)} : t \in UnsignedTypes}

BitMembersAt(name) ==
    {BitMember1(name, a) : a \in BitPositions}
        \cup {BitMember(name, a, b) : a \in BitPositions, b \in BitPositions}

BitMemberLists ==
    {<<m>> : m \in BitMembersAt("m1")}
        \cup {<<m, n>> : m \in BitMembersAt("m1"), n \in BitMembersAt("m2")}

\* one register holding one bit field, of any base type and member list
InitBits ==
    /\ ver \in Versions
    /\ src \in { <<RegisterOf("R1", 1, "", <<BitFieldOf("flags", "", base, bits)>>)>> :
                    base \in SimpleTypeNames, bits \in BitMemberLists }
    /\ InitCommon

\* the bit-field family: Parse on one bit field
SpecBits == InitBits /\ [][NextParse]_vars

\* the width in bits of an integer type
BitsOf(t) ==
    CASE t \in {"uint8", "int8"}   -> 8
      [] t \in {"uint16", "int16"} -> 16
      [] t \in {"uint32", "int32", "float32"} -> 32
      [] OTHER -> 64

\* end defaults to start
EndOf(bm) == IF bm.hasEnd THEN bm.end ELSE bm.start
InRange(bm, w) == 0 <= bm.start /\ bm.start <= EndOf(bm) /\ EndOf(bm) < w
AllInRange(f) == \A k \in 1..Len(f.bits) : InRange(f.bits[k], BitsOf(f.tname))

\* C4: for a bit field over a base type of W bits, validation accepts the
\* members exactly when each has 0 <= start <= end < W (end defaulting to
\* start); a member with end >= W or start > end makes Parse fail, and after
\* a successful Parse every bit member of every register is in range.
C4_BitRange ==
    /\ \A i \in 1..Len(src) : \A j \in 1..Len(src[i].fields) :
          LET f == src[i].fields[j] IN
          (f.kind = "bitfield" /\ f.tname \in UnsignedTypes) =>
              ((validateBitFields(RegisterOf("R", 1, "", <<f>>)).kind = "none")
                  <=> AllInRange(f))
    /\ pc = "parsed" =>
          /\ (\E i \in 1..Len(src) : \E j \in 1..Len(src[i].fields) :
                 src[i].fields[j].kind = "bitfield" /\ ~AllInRange(src[i].fields[j]))
                => err.kind # "none"
          /\ err.kind = "none" =>
                \A i \in 1..Len(device.registers) :
                    \A j \in 1..Len(device.registers[i].fields) :
                        device.registers[i].fields[j].kind = "bitfield"
                            => AllInRange(device.registers[i].fields[j])

\* a uint64 bit field with the full-width member 0-63 and the single bit 63
\* is accepted
C4_Witness ==
    /\ pc = "parsed" /\ err.kind = "none"
    /\ src[1].fields[1].tname = "uint64"
    /\ Len(src[1].fields[1].bits) = 2
    /\ src[1].fields[1].bits[1] = BitMember("m1", 0, 63)
    /\ src[1].fields[1].bits[2] = BitMember1("m2", 63)

\* C5: Parse fails for every bit field whose base type is not uint8, uint16,
\* uint32 or uint64, whatever its members: a signed base is refused by the
\* validation of the first revision ('must use unsigned integer type') and by
\* the grammar of the second, a floating-point base by the grammar of both.
C5_UnsignedBase ==
    pc = "parsed" =>
        \A i \in 1..Len(src) : \A j \in 1..Len(src[i].fields) :
            LET f == src[i].fields[j] IN
            (f.kind = "bitfield" /\ f.tname \notin UnsignedTypes) =>
                /\ err.kind # "none"
                /\ device = NoDevice
                /\ (i = 1 /\ j = 1) =>
                      err.kind = (IF ver = "v1" /\ f.tname \in SignedTypes
                                  THEN "bit_base_not_unsigned" ELSE "syntax")

\* a signed base with a member that fits it is rejected by validation
C5_Witness ==
    /\ pc = "parsed"
    /\ ver = "v1"
    /\ src[1].fields[1].tname = "int16"
    /\ src[1].fields[1].bits = <<BitMember("m1", 0, 15)>>
    /\ err.kind = "bit_base_not_unsigned"

-----------------------------------------------------------------------------
(* Bit masks.                                                              *)

\* the ranges a validated bit member can have: 0 <= start <= end < 64
InitMask ==
    /\ arg \in {[start |-> a, end |-> b] : a \in Word, b \in Word} 
    /\ arg.start <= arg.end
    /\ pc = "input"
    /\ out = NoOut
    /\ ver = "v2"
    /\ src = << >>
    /\ device = NoDevice
    /\ err = NoErr
    /\ code = NoCode

NextMask == CallBitMask

\* the mask family: bitMask on every legal range
SpecMask == InitMask /\ [][NextMask]_vars

\* C6: for 0 <= start <= end < 64 bitMask(start, end) is the 64-bit value
\* ((1 << (end-start+1)) - 1) << start, the word whose one bits are exactly
\* start..end, the full-width member 0-63 included; the members 0, 1-3 and
\* 22-31 give 0x1, 0xE and 0xFFC00000.
C6_BitMask ==
    /\ pc = "done" =>
          /\ out = {b \in Word : arg.start <= b /\ b <= arg.end}
          /\ Cardinality(out) = arg.end - arg.start + 1
          /\ (arg.start = 0 /\ arg.end = 0) => FormatHex(out) = "1"
          /\ (arg.start = 1 /\ arg.end = 3) => FormatHex(out) = "E"
          /\ (arg.start = 22 /\ arg.end = 31) => FormatHex(out) = "FFC00000"
          /\ (arg.start = 0 /\ arg.end = 63) => FormatHex(out) = "FFFFFFFFFFFFFFFF"

\* the full-width member 0-63
C6_Witness ==
    /\ pc = "done"
    /\ arg.start = 0 /\ arg.end = 63
    /\ out = Word

-----------------------------------------------------------------------------
(* Variable-length arrays.                                                 *)

MaxArrFields == 3  \* fields of the register in the array family

\* names a length reference can be given: a scalar's, the synthesized name
\* of a bit member, a bare member name, a bit field's, a mask's, an
\* array's, and one that nothing carries
RefNames == {"n", "bf_m", "m", "bf", "bf_m_bm", "data", "zz"}

ArrFieldPool ==
    {SimpleField(nm, "", "uint8") : nm \in {"n", "bf_m", "m"}}
        \cup {BitFieldOf("bf", "", "uint8", <<BitMember("m", 0, 3)>>)}
        \cup {ArrayField("data", "", VarSize(x), "uint8") : x \in RefNames}
        \cup {ArrayField("data", "", ConstSize(2), "uint8")}

\* one register whose fields are valid but for the length references
InitArr ==
    /\ ver \in Versions
    /\ src \in { <<RegisterOf("R1", 1, "", fl)>> : fl \in SeqsUpTo(ArrFieldPool, MaxArrFields) }
    /\ InitCommon

\* the array family: Parse on one register with length references
SpecArr == InitArr /\ [][NextParse]_vars

IsVarArray(f) == f.kind = "array" /\ f.size.k = "var"

\* the names under which a revision lets a reference address a field
Carries(v, f, x) ==
    IF v = "v1"
    THEN \/ f.name = x
         \/ /\ f.kind = "bitfield"
            /\ \E k \in 1..Len(f.bits) :
                  x \in {f.bits[k].name, f.name \o "_" \o f.bits[k].name,
                         f.name \o "_" \o f.bits[k].name \o "_bm"}
    ELSE \/ f.kind = "simple" /\ f.name = x
         \/ /\ f.kind = "bitfield"
            /\ \E k \in 1..Len(f.bits) : x = f.name \o "_" \o f.bits[k].name

DeclaredBefore(v, r, i, x) == \E j \in 1..(i - 1) : Carries(v, r.fields[j], x)
ScalarAfter(r, i, x) ==
    \E j \in (i + 1)..Len(r.fields) : r.fields[j].kind = "simple" /\ r.fields[j].name = x
ScalarBefore(r, i, x) ==
    \E j \in 1..(i - 1) : r.fields[j].kind = "simple" /\ r.fields[j].name = x

\* the arrays of r whose reference nothing declared before them carries
Unresolved(v, r) ==
    {i \in 1..Len(r.fields) :
        IsVarArray(r.fields[i]) /\ ~DeclaredBefore(v, r, i, r.fields[i].size.ref)}
FirstOf(S) == CHOOSE i \in S : \A k \in S : i <= k

-----------------------------------------------------------------------------
(* The generators.                                                         *)

MaxGenFields == 3   \* fields of the register the generated code is run on

\* the register that is embedded: one field of each view
ConfigRegister ==
    RegisterOf("Config", 0, "",
               <<SimpleField("mode", "", "uint8"), SimpleField("limit", "w", "uint16"),
                 SimpleField("state", "r", "uint8")>>)

\* the fields a register is made of, in the order of their declaration:
\* a length source, a scalar, a bit field, a fixed array, two variable
\* arrays and an embedded register
GenSlots ==
    << {SimpleField("n", s, "uint8") : s \in Specifiers},
       {SimpleField("x", s, t) : s \in Specifiers, t \in {"int16", "float32"}},
       {BitFieldOf("bf", s, "uint8", <<BitMember("m", 4, 6)>>) : s \in Specifiers},
       {ArrayField("fix", s, ConstSizeLit(l), "uint16") :
            s \in Specifiers, l \in {DecLit(2), Lit("0x", <<2>>)}},
       {ArrayField("data", s, VarSize("n"), "uint32") : s \in Specifiers},
       {ArrayField("vb", s, VarSize("bf_m"), "uint8") : s \in Specifiers},
       {SimpleField("cfg", s, "Config") : s \in Specifiers} >>

\* the field lists that take at most one field of each slot, in slot order
RECURSIVE GenFieldLists(_, _)
GenFieldLists(k, n) ==
    IF k > Len(GenSlots) THEN { << >> }
    ELSE GenFieldLists(k + 1, n)
           \cup (IF n = 0 THEN {}
                 ELSE {<<f>> \o fl : f \in GenSlots[k], fl \in GenFieldLists(k + 1, n - 1)})

InitGen ==
    /\ ver \in {"v1", "v3"}
    /\ src \in { <<ConfigRegister, RegisterOf("R1", 1, s, fl)>> :
                    s \in Specifiers, fl \in GenFieldLists(1, MaxGenFields) }
    /\ InitCommon

NextGen == DoParse \/ DoGenerate \/ CallBufSize \/ CallSerialize

\* the generator family: Parse, the generator, and the generated Go code
SpecGen == InitGen /\ [][NextGen]_vars

\* the accessibility a field resolves to: its own specifier, else the
\* register's, else read-write
Resolved(r, f) ==
    IF f.spec # "" THEN f.spec ELSE IF r.spec # "" THEN r.spec ELSE "rw"

InView(view, r, f) ==
    Resolved(r, f) \in (IF view = "Read" THEN {"r", "rw"} ELSE {"w", "rw"})

\* the fields of a view, in declaration order
ViewFields(view, r) == SelectSeq(r.fields, LAMBDA f : InView(view, r, f))

FieldNames(fields) == [i \in 1..Len(fields) |-> fields[i].name]

\* the byte width of a scalar kind
Width(t) ==
    CASE t \in {"int8", "uint8"}              -> 1
      [] t \in {"int16", "uint16"}            -> 2
      [] t \in {"int32", "uint32", "float32"} -> 4
      [] t \in {"int64", "uint64", "float64"} -> 8

RegisterNamed(d, name) == d[CHOOSE i \in 1..Len(d) : d[i].name = name]

\* the encoding of a view: the encodings of its fields, one after another
RECURSIVE ViewEncoding(_, _, _, _)
RECURSIVE fieldsEncoding(_, _, _, _)
fieldsEncoding(d, fields, view, val) ==
    IF fields = << >> THEN << >>
    ELSE LET f == Head(fields)
             enc == CASE f.kind = "array" -> BigEndianAll(val[f.name], Width(f.tname))
                      [] f.kind = "simple" /\ f.tname \notin SimpleTypeNames ->
                            ViewEncoding(d, RegisterNamed(d, f.tname), view, val[f.name])
                      [] OTHER -> BigEndian(val[f.name], Width(f.tname))
         IN  enc \o fieldsEncoding(d, Tail(fields), view, val)

ViewEncoding(d, r, view, val) == fieldsEncoding(d, ViewFields(view, r), view, val)

LengthValue(r, ref, val) ==
    IF \E j \in 1..Len(r.fields) : r.fields[j].kind = "simple" /\ r.fields[j].name = ref
    THEN IntOf(val[ref])
    ELSE LET j == CHOOSE j \in 1..Len(r.fields) :
                     /\ r.fields[j].kind = "bitfield"
                     /\ \E k \in 1..Len(r.fields[j].bits) :
                           ref = r.fields[j].name \o "_" \o r.fields[j].bits[k].name
             f == r.fields[j]
             bm == f.bits[CHOOSE k \in 1..Len(f.bits) : ref = f.name \o "_" \o f.bits[k].name]
         IN  IntOf({b - bm.start : b \in val[f.name] \cap (bm.start..EndOf(bm))})

\* the size of a view: widths of scalars, bit-packed fields and fixed
\* arrays, element width x length-source value for a variable array, the
\* target's size of the same view for an embedded register
RECURSIVE SizeFormula(_, _, _, _)
RECURSIVE fieldsSize(_, _, _, _, _)
fieldsSize(d, r, fields, view, val) ==
    IF fields = << >> THEN 0
    ELSE LET f == Head(fields)
             size == CASE f.kind = "array" /\ f.size.k = "const" ->
                            IntLiteral(f.size.n) * Width(f.tname)
                       [] f.kind = "array" ->
                            Width(f.tname) * LengthValue(r, f.size.ref, val)
                       [] f.kind = "simple" /\ f.tname \notin SimpleTypeNames ->
                            SizeFormula(d, RegisterNamed(d, f.tname), view, val[f.name])
                       [] OTHER -> Width(f.tname)
         IN  size + fieldsSize(d, r, Tail(fields), view, val)

SizeFormula(d, r, view, val) == fieldsSize(d, r, ViewFields(view, r), view, val)

IsSizeCall == pc = "called" /\ arg.fn \in {"BufSize4Read", "BufSize4Write"}

\* C9: for each register and each view, the generated size function equals
\* the sum of the widths of the view's scalar, bit-packed and fixed-array
\* fields (a fixed array counting length x element width), plus element
\* width x the current value of the length source for each variable array,
\* plus the target register's size for the same view for each embedded
\* register.
C9_SizeFormula ==
    IsSizeCall => out.n = SizeFormula(src, src[arg.reg], arg.view, arg.val)

\* every fixed array of the register the size function is called on, and
\* of the registers it embeds, has its length written in decimal
DecimalLengths ==
    \A i \in 1..Len(src) : \A j \in 1..Len(src[i].fields) :
        (src[i].fields[j].kind = "array" /\ src[i].fields[j].size.k = "const")
            => src[i].fields[j].size.n.prefix = ""

\* C9, apart from fixed arrays whose length is not written in decimal: the
\* generated size function equals the formula, e.g. 1 + 4*n for
\* {n uint8; data [n]uint32}.
C9_SizeFormulaDecimal ==
    (IsSizeCall /\ DecimalLengths) =>
        /\ out.n = SizeFormula(src, src[arg.reg], arg.view, arg.val)
        /\ (/\ FieldNames(src[arg.reg].fields) = <<"n", "data">>
            /\ src[arg.reg].spec = ""
            /\ \A j \in 1..2 : src[arg.reg].fields[j].spec = "")
              => out.n = 1 + 4 * IntOf(arg.val["n"])

\* BufSize4Read of {fix [0x2]uint16} has returned 0: the view is 4 bytes
C9_Witness ==
    /\ IsSizeCall
    /\ arg.fn = "BufSize4Read"
    /\ arg.reg = 2
    /\ src[2].spec = ""
    /\ src[2].fields = <<ArrayField("fix", "", ConstSizeLit(Lit("0x", <<2>>)), "uint16")>>
    /\ out.n = 0
    /\ SizeFormula(src, src[2], "Read", arg.val) = 4

\* C10: in a read-only register every field declared without a specifier
\* resolves to Read, the Write-view size is 0 and the Write-view
\* serialization writes 0 bytes; in a write-only register every such field
\* resolves to Write, the Read-view size is 0 and the Read-view
\* serialization writes 0 bytes.
C10_OneWayRegister ==
    \A i \in 1..Len(src) :
       LET other == IF src[i].spec = "r" THEN "Write" ELSE "Read" IN
       src[i].spec # "" =>
         /\ (pc # "input" /\ err.kind = "none") =>
               \A j \in 1..Len(src[i].fields) :
                  src[i].fields[j].spec = ""
                     => device.registers[i].fields[j].spec = src[i].spec
         /\ (pc \in {"generated", "called"} /\ code.backend = "cpp") =>
               IF src[i].spec = "r" THEN code.Registers[i].send_write_data = << >>
               ELSE code.Registers[i].send_read_data = << >>
         /\ (pc \in {"generated", "called"} /\ code.backend = "go") =>
               /\ src[i].spec = "r" => code.Registers[i].BufSize4WriteConst = 0
               /\ src[i].spec = "w" => code.Registers[i].BufSize4ReadConst = 0
               /\ ViewStatements(other, code.Registers[i], 1) = << >>
         /\ (pc = "called" /\ arg.reg = i /\ arg.view = other) =>
               /\ out.n = 0
               /\ out.buf = arg.buf

\* SerializeWrite has run on a read-only register that has fields, one of
\* them declared without a specifier, and its consistency check passed
C10_Witness ==
    /\ pc = "called"
    /\ arg.fn = "SerializeWrite"
    /\ arg.reg = 2
    /\ src[2].spec = "r"
    /\ Len(src[2].fields) = MaxGenFields
    /\ \E j \in 1..Len(src[2].fields) : src[2].fields[j].spec = ""
    /\ out.err = "nil"
    /\ out.n = 0

-----------------------------------------------------------------------------
(* The wire family: the generated Go serializers and deserializers run on  *)
(* buffers of every length.                                                *)

MaxWireFields == 2   \* fields of the register the generated code is run on

\* the register that is embedded: a variable array and its length source
BlobRegister ==
    RegisterOf("Blob", 0, "",
               <<SimpleField("k", "", "uint8"), ArrayField("items", "", VarSize("k"), "uint8")>>)

\* the fields a register is made of, in the order of their declaration
WireSlots ==
    << {SimpleField("n", s, "uint16") : s \in Specifiers},
       {BitFieldOf("bf", s, "uint8", <<BitMember("m", 4, 6)>>) : s \in Specifiers},
       {ArrayField("fix", s, ConstSize(2), "uint16") : s \in Specifiers},
       {ArrayField("data", s, VarSize("n"), "uint32") : s \in Specifiers},
       {ArrayField("vb", s, VarSize("bf_m"), "uint8") : s \in Specifiers},
       {SimpleField("sub", s, "Blob") : s \in Specifiers} >>

RECURSIVE WireFieldLists(_, _)
WireFieldLists(k, n) ==
    IF k > Len(WireSlots) THEN { << >> }
    ELSE WireFieldLists(k + 1, n)
           \cup (IF n = 0 THEN {}
                 ELSE {<<f>> \o fl : f \in WireSlots[k], fl \in WireFieldLists(k + 1, n - 1)})

InitWire ==
    /\ ver = "v3"
    /\ src \in { <<BlobRegister, RegisterOf("R1", 1, "", fl)>> :
                    fl \in WireFieldLists(1, MaxWireFields) }
    /\ InitCommon

NextWire == DoParse \/ DoGenerate \/ CallSerializeInto \/ CallDeserialize

SpecWire == InitWire /\ [][NextWire]_vars

\* the fields of a view hold the same values in two values of a register
RECURSIVE SameInView(_, _, _, _, _)
SameInView(d, r, view, v, w) ==
    \A j \in 1..Len(r.fields) :
       LET f == r.fields[j] IN
       InView(view, r, f) =>
          IF f.kind = "simple" /\ f.tname \notin SimpleTypeNames
          THEN SameInView(d, RegisterNamed(d, f.tname), view, v[f.name], w[f.name])
          ELSE v[f.name] = w[f.name]

\* a deserializer has run on all the bytes its serializer produced
IsRoundTrip == pc = "decoded" /\ Len(arg.buf) = arg.full

\* C11: for every register value that satisfies the array-length
\* precondition, and for each view, deserializing into a fresh register the
\* bytes produced by serializing that view yields, for every field of the
\* view, the value of the original.
C11_RoundTrip ==
    IsRoundTrip =>
        /\ out.err = "nil"
        /\ SameInView(src, src[arg.reg], arg.view, arg.val, out.val)

\* the length source of every variable array of the view is in the view
RECURSIVE SourcesInView(_, _, _)
SourcesInView(d, r, view) ==
    \A j \in 1..Len(r.fields) :
       LET f == r.fields[j] IN
       InView(view, r, f) =>
          CASE f.kind = "array" /\ f.size.k = "var" ->
                  \E i \in 1..(j - 1) :
                     /\ InView(view, r, r.fields[i])
                     /\ \/ r.fields[i].kind = "simple" /\ r.fields[i].name = f.size.ref
                        \/ /\ r.fields[i].kind = "bitfield"
                           /\ \E k \in 1..Len(r.fields[i].bits) :
                                 f.size.ref = r.fields[i].name \o "_" \o r.fields[i].bits[k].name
            [] f.kind = "simple" /\ f.tname \notin SimpleTypeNames ->
                  SourcesInView(d, RegisterNamed(d, f.tname), view)
            [] OTHER -> TRUE

\* C11, for the views that hold the length source of each of their variable
\* arrays: the round trip gives back every field of the view.
C11_RoundTripSourced ==
    (IsRoundTrip /\ SourcesInView(src, src[arg.reg], arg.view)) =>
        /\ out.err = "nil"
        /\ out.n = arg.full
        /\ SameInView(src, src[arg.reg], arg.view, arg.val, out.val)

\* DeserializeRead of {n: w uint16; data [n]uint32} on the 8 bytes of
\* data = [7, 9] has returned an empty data
C11_Witness ==
    /\ IsRoundTrip
    /\ arg.fn = "DeserializeRead"
    /\ arg.reg = 2
    /\ src[2].fields = <<SimpleField("n", "w", "uint16"),
                         ArrayField("data", "", VarSize("n"), "uint32")>>
    /\ arg.val["data"] = <<IntBits(7), IntBits(9)>>
    /\ arg.full = 8
    /\ out.err = "nil"
    /\ out.val["data"] = << >>

IsSerializeCall == pc = "called" /\ arg.fn \in {"SerializeRead", "SerializeWrite"}

\* a variable array of the register itself whose length is not the value of
\* its length source
OwnMismatch(r, val) ==
    \E j \in 1..Len(r.fields) :
       /\ r.fields[j].kind = "array" /\ r.fields[j].size.k = "var"
       /\ Len(val[r.fields[j].name]) # LengthValue(r, r.fields[j].size.ref, val)

\* such an array in the register, or in a register the view embeds
RECURSIVE Mismatch(_, _, _, _)
Mismatch(d, r, view, val) ==
    \/ OwnMismatch(r, val)
    \/ \E j \in 1..Len(r.fields) :
          /\ r.fields[j].kind = "simple" /\ r.fields[j].tname \notin SimpleTypeNames
          /\ InView(view, r, r.fields[j])
          /\ Mismatch(d, RegisterNamed(d, r.fields[j].tname), view, val[r.fields[j].name])

\* C12: SerializeRead and SerializeWrite return an error, report 0 bytes
\* written and leave the buffer unmodified whenever a variable-length array's
\* length differs from the current value of its length source; the array is
\* never padded or truncated.
C12_LengthMismatch ==
    (IsSerializeCall /\ Mismatch(src, src[arg.reg], arg.view, arg.val)) =>
        /\ out.err # "nil"
        /\ out.n = 0
        /\ out.buf = arg.buf

\* C12, for the variable arrays that are fields of the register the
\* serializer is called on: the error is the length mismatch, nothing is
\* written.
C12_OwnLengthMismatch ==
    (IsSerializeCall /\ OwnMismatch(src[arg.reg], arg.val)) =>
        /\ out.err = "length mismatch"
        /\ out.n = 0
        /\ out.buf = arg.buf

\* SerializeRead of {n uint16; sub Blob} with sub.k = 1 and no item has
\* written the two bytes of n and returned 2 with the error
C12_Witness ==
    /\ IsSerializeCall
    /\ arg.fn = "SerializeRead"
    /\ FieldNames(src[arg.reg].fields) = <<"n", "sub">>
    /\ \A j \in 1..2 : src[arg.reg].fields[j].spec = ""
    /\ arg.val["sub"]["k"] = IntBits(1)
    /\ arg.val["sub"]["items"] = << >>
    /\ Len(arg.buf) = BufLen
    /\ out.err = "length mismatch"
    /\ out.n = 2
    /\ out.buf # arg.buf

\* C13: SerializeRead, SerializeWrite, DeserializeRead and DeserializeWrite
\* return a non-nil error whenever the buffer is shorter than the bytes the
\* view requires at some step; they never return a nil error after
\* processing fewer bytes than the view's full size.
C13_ShortBuffer ==
    /\ IsSerializeCall =>
          LET need == SizeFormula(src, src[arg.reg], arg.view, arg.val) IN
          /\ out.err = "nil" => (out.n = need /\ need <= Len(arg.buf))
          /\ (Len(arg.buf) < need /\ ~Mismatch(src, src[arg.reg], arg.view, arg.val))
                => out.err = "buffer too small"
    /\ pc = "decoded" =>
          \* the size of the view of the register that has been read
          LET need == SizeFormula(src, src[arg.reg], arg.view, out.val) IN
          /\ out.err = "nil" => (out.n = need /\ need <= Len(arg.buf))
          /\ (Len(arg.buf) < arg.full /\ SourcesInView(src, src[arg.reg], arg.view))
                => out.err = "buffer too small"

\* a deserializer has stopped with the error in the middle of the bytes of
\* a view of a register with the most fields of the family
C13_Witness ==
    /\ pc = "decoded"
    /\ Len(src[arg.reg].fields) = MaxWireFields
    /\ SourcesInView(src, src[arg.reg], arg.view)
    /\ Len(arg.buf) < arg.full
    /\ out.err = "buffer too small"
    /\ out.n > 0

-----------------------------------------------------------------------------
(* The register-reference family: Parse on devices whose registers embed   *)
(* one another.                                                            *)

MaxRefRegs == 3     \* registers per device
MaxRefFields == 2   \* fields per register

AllVersions == Versions \cup {"v3"}

\* the registers a field can name: those of the largest device, so that a
\* smaller device names registers it does not declare
RefTypes == [i \in 1..MaxRefRegs |-> RegName(i)]

\* a scalar, then one register-reference field for each chosen type
RefFields(chosen) ==
    LET types == SelectSeq(RefTypes, LAMBDA t : t \in chosen) IN
    <<SimpleField("x", "", "uint8")>>
       \o [j \in 1..Len(types) |-> SimpleField("f" \o ToString(j), "", types[j])]

RefChoices ==
    {c \in SUBSET {RefTypes[i] : i \in 1..Len(RefTypes)} : Cardinality(c) <= MaxRefFields}

InitRef ==
    /\ ver \in AllVersions
    /\ \E n \in 1..MaxRefRegs :
          src \in { [i \in 1..n |-> RegisterOf(RegName(i), i, "", RefFields(cs[i]))] :
                       cs \in [1..n -> RefChoices] }
    /\ InitCommon

SpecRef == InitRef /\ [][NextParse]_vars

\* register i of d embeds register k of d
RefEdge(d, i, k) ==
    \E j \in 1..Len(d[i].fields) :
       d[i].fields[j].kind = "simple" /\ d[i].fields[j].tname = d[k].name

\* k can be reached from i along at least one and at most n edges
RECURSIVE RefPath(_, _, _, _)
RefPath(d, i, k, n) ==
    /\ n > 0
    /\ \/ RefEdge(d, i, k)
       \/ \E m \in 1..Len(d) : RefEdge(d, i, m) /\ RefPath(d, m, k, n - 1)

HasCycle(d) == \E i \in 1..Len(d) : RefPath(d, i, i, Len(d))

-----------------------------------------------------------------------------
(* What Parse returns with an error, and which error.                      *)

\* C15: whenever Parse returns an error, a syntax error or any semantic
\* violation, the returned device is nil: no partially built or partially
\* validated device comes with an error.
C15_NilOnError ==
    pc = "parsed" =>
        /\ err.kind # "none" => device = NoDevice
        /\ err.kind = "none" => (~device.nil /\ Len(device.registers) = Len(src))

\* Parse has validated the first register, stopped at the array of the
\* second and returned nil
C15_Witness ==
    /\ pc = "parsed"
    /\ Len(src) = 2
    /\ src[1].fields = <<SimpleField("a", "", "uint8")>>
    /\ err.kind = "undefined_field"
    /\ err.reg = "R2"
    /\ device = NoDevice

MaxOrdRegs == 3   \* registers per device in the order family

\* a register of the order family: a scalar that may contradict the
\* register's specifier, a bit field that may leave its base type, and a
\* variable array whose reference may be undeclared
OrdRegister(i, number, conflict, badBits, badRef) ==
    RegisterOf(RegName(i), number, "r",
               <<SimpleField("a", IF conflict THEN "w" ELSE "", "uint8"),
                 BitFieldOf("b", "", "uint8",
                            <<BitMember("m", 0, IF badBits THEN 8 ELSE 3)>>),
                 ArrayField("c", "", VarSize(IF badRef THEN "nn" ELSE "a"), "uint8")>>)

OrdChoices == [conflict : BOOLEAN, badBits : BOOLEAN, badRef : BOOLEAN]

\* the numbers of n registers: each register has its own number or repeats
\* the number of an earlier one
OrdNumbers(n) == {ns \in [1..n -> 1..n] : \A i \in 1..n : ns[i] <= i}

InitOrd ==
    /\ ver \in AllVersions
    /\ \E n \in 1..MaxOrdRegs :
          src \in { [i \in 1..n |-> OrdRegister(i, ns[i], cs[i].conflict,
                                                cs[i].badBits, cs[i].badRef)] :
                       ns \in OrdNumbers(n), cs \in [1..n -> OrdChoices] }
    /\ InitCommon

\* the order family: Parse on registers with any combination of violations
SpecOrd == InitOrd /\ [][NextParse]_vars

BadBits(r) ==
    \E j \in 1..Len(r.fields) :
       r.fields[j].kind = "bitfield"
          /\ (r.fields[j].tname \notin UnsignedTypes \/ ~AllInRange(r.fields[j]))

\* the kind of the first check register i of d fails, in the order
\* duplicate number, accessibility conflict, bit-field legality,
\* variable-array reference; "none" if it fails none
FirstViolation(v, d, i) ==
    CASE Repeats(d, i)                -> "number"
      [] Conflict(d[i])               -> "accessibility"
      [] BadBits(d[i])                -> "bits"
      [] Unresolved(v, d[i]) # {}     -> "array"
      [] OTHER                        -> "none"

\* the check an error of Parse comes from
CheckOf(kind) ==
    CASE kind = "duplicate_register_number"                    -> "number"
      [] kind \in {"write_in_readonly", "read_in_writeonly"}   -> "accessibility"
      [] kind \in {"bit_range_exceeds", "bit_negative", "bit_start_gt_end",
                   "bit_base_not_unsigned"}                    -> "bits"
      [] kind \in {"undefined_field", "type_in_variable"}      -> "array"
      [] OTHER                                                 -> kind

Violators(v, d) == {i \in 1..Len(d) : FirstViolation(v, d, i) # "none"}

\* C20: validation is fail-fast in declaration order: the error Parse
\* returns is the one of the earliest register that has any violation, and
\* within that register of the first failing check in the order duplicate
\* number, accessibility conflict, bit-field legality, variable-array
\* reference.
C20_FailFast ==
    pc = "parsed" =>
        IF Violators(ver, src) = {} THEN err.kind = "none"
        ELSE LET i == FirstOf(Violators(ver, src)) IN
             /\ CheckOf(err.kind) = FirstViolation(ver, src, i)
             /\ IF err.kind = "duplicate_register_number"
                THEN err.num = src[i].number
                ELSE err.reg = src[i].name

\* the second register has a bad bit field and a bad array, the third
\* repeats the number of the first and has a conflict: the bit field of the
\* second is reported
C20_Witness ==
    /\ pc = "parsed"
    /\ Len(src) = 3
    /\ FirstViolation(ver, src, 1) = "none"
    /\ ~Repeats(src, 2) /\ ~Conflict(src[2]) /\ BadBits(src[2])
    /\ Unresolved(ver, src[2]) # {}
    /\ Repeats(src, 3) /\ Conflict(src[3])
    /\ err.kind = "bit_range_exceeds"
    /\ err.reg = "R2"

-----------------------------------------------------------------------------
(* The bytes on the wire.                                                  *)

\* byte i (from 0) of the k-byte encoding of the number v, v below 2^31:
\* (v >> 8*(k-1-i)) mod 256
ByteOf(v, k, i) ==
    IF 8 * (k - 1 - i) > 30 THEN 0 ELSE (v \div 2^(8 * (k - 1 - i))) % 256

NumberBytes(v, k) == [i \in 1..k |-> ByteOf(v, k, i - 1)]

RECURSIVE ElementBytes(_, _)
ElementBytes(elems, k) ==
    IF elems = << >> THEN << >>
    ELSE NumberBytes(IntOf(Head(elems)), k) \o ElementBytes(Tail(elems), k)

\* the bytes of a view: k bytes for each number, length x k bytes for each
\* array, the bytes of the same view of each embedded register
RECURSIVE WireBytes(_, _, _, _)
RECURSIVE wireBytesFrom(_, _, _, _, _)
wireBytesFrom(d, r, fields, view, val) ==
    IF fields = << >> THEN << >>
    ELSE LET f == Head(fields)
             bytes == CASE f.kind = "array" -> ElementBytes(val[f.name], Width(f.tname))
                        [] f.kind = "simple" /\ f.tname \notin SimpleTypeNames ->
                             WireBytes(d, RegisterNamed(d, f.tname), view, val[f.name])
                        [] OTHER -> NumberBytes(IntOf(val[f.name]), Width(f.tname))
         IN  bytes \o wireBytesFrom(d, r, Tail(fields), view, val)

WireBytes(d, r, view, val) == wireBytesFrom(d, r, ViewFields(view, r), view, val)

-----------------------------------------------------------------------------
(* The length source of a variable array.                                  *)

\* the field that carries the length source of the variable array f of r:
\* the scalar of that name, or the bit field that owns the member
SourceField(r, f) ==
    CHOOSE g \in {r.fields[j] : j \in 1..Len(r.fields)} :
       \/ g.kind = "simple" /\ g.name = f.size.ref
       \/ /\ g.kind = "bitfield"
          /\ \E k \in 1..Len(g.bits) : f.size.ref = g.name \o "_" \o g.bits[k].name

\* name a comes before name b in the sequence of names
Precedes(names, a, b) ==
    \E i, j \in 1..Len(names) : i < j /\ names[i] = a /\ names[j] = b

\* the names of the fields a view of a generated register sends, in order
SentNames(view, i) ==
    IF code.backend = "cpp"
    THEN IF view = "Read" THEN code.Registers[i].send_read_data
         ELSE code.Registers[i].send_write_data
    ELSE LET fs == SelectSeq(code.Registers[i].Fields,
                             LAMBDA gf : (IF view = "Read" THEN gf.SerializeReadData
                                          ELSE gf.SerializeWriteData) # << >>)
         IN  [j \in 1..Len(fs) |-> fs[j].Name]

\* C17: in each view, every variable-length array is preceded, in that same
\* view, by the field that carries its length source: no generated view
\* holds a variable array but omits its length source.
C17_SourceInView ==
    pc \in {"generated", "called"} =>
        \A i \in 1..Len(device.registers), view \in Views :
           \A j \in 1..Len(device.registers[i].fields) :
              LET r == device.registers[i]
                  f == r.fields[j]
              IN  (IsVarArray(f) /\ \E k \in 1..Len(SentNames(view, i)) :
                                       SentNames(view, i)[k] = f.name)
                     => Precedes(SentNames(view, i), SourceField(r, f).name, f.name)

\* the Go code of {n: w uint8; data [n]uint32} has been generated: the Read
\* view sends data alone
C17_Witness ==
    /\ pc = "generated"
    /\ code.backend = "go"
    /\ src[2].spec = ""
    /\ src[2].fields = <<SimpleField("n", "w", "uint8"),
                         ArrayField("data", "", VarSize("n"), "uint32")>>
    /\ SentNames("Read", 2) = <<"data">>
    /\ SentNames("Write", 2) = <<"n", "data">>

-----------------------------------------------------------------------------
(* What a length reference may name.                                       *)

\* x is <field>_<member> for a member of a bit field declared before field i
MemberBefore(r, i, x) ==
    \E j \in 1..(i - 1) :
       /\ r.fields[j].kind = "bitfield"
       /\ \E k \in 1..Len(r.fields[j].bits) :
             x = r.fields[j].name \o "_" \o r.fields[j].bits[k].name

\* the arrays of r whose reference names neither an earlier scalar nor
\* <field>_<member> of an earlier bit field
Illegitimate(r) ==
    {i \in 1..Len(r.fields) :
        /\ IsVarArray(r.fields[i])
        /\ ~ScalarBefore(r, i, r.fields[i].size.ref)
        /\ ~MemberBefore(r, i, r.fields[i].size.ref)}

\* C18: a length reference resolves only to a previously declared scalar
\* field or to <field>_<member> of a previously declared bit field; a
\* reference that names an earlier array or bit field itself, a bare member
\* name, or a <field>_<member>_bm mask name is rejected as undefined.
C18_ScalarOrMember ==
    pc = "parsed" =>
        LET r == src[1]
            bad == Illegitimate(r)
        IN  /\ (err.kind = "none") <=> (bad = {})
            /\ bad # {} =>
                  err = ErrOf("undefined_field", r.name, r.fields[FirstOf(bad)].name, 0,
                              r.fields[FirstOf(bad)].size.ref)

\* C18 for the revision of the parser with Register.FindFieldByName.
C18_LaterRevision ==
    (pc = "parsed" /\ ver # "v1") =>
        LET r == src[1]
            bad == Illegitimate(r)
        IN  /\ (err.kind = "none") <=> (bad = {})
            /\ bad # {} =>
                  err = ErrOf("undefined_field", r.name, r.fields[FirstOf(bad)].name, 0,
                              r.fields[FirstOf(bad)].size.ref)

\* Parse of pkg/parser/parser.go has accepted an array sized by the bare
\* name of a bit member
C18_Witness ==
    /\ pc = "parsed"
    /\ ver = "v1"
    /\ src[1].fields = <<BitFieldOf("bf", "", "uint8", <<BitMember("m", 0, 3)>>),
                         ArrayField("data", "", VarSize("m"), "uint8")>>
    /\ err.kind = "none"
    /\ ~device.nil

\* the length-source family: one register, two scalars of any type and a
\* variable array sized by one of them
InitSrc ==
    /\ ver \in AllVersions
    /\ src \in { <<RegisterOf("R1", 1, "",
                              <<SimpleField("n", "", t1), SimpleField("k", "", t2),
                                ArrayField("data", "", VarSize(x), "uint8")>>)>> :
                    t1 \in SimpleTypeNames, t2 \in SimpleTypeNames, x \in {"n", "k"} }
    /\ InitCommon

SpecSrc == InitSrc /\ [][NextParse]_vars

\* the type of the scalar the array of the length-source family is sized by
SourceType(r) == SourceField(r, r.fields[3]).tname

\* C19: validateArrays accepts a variable-length array only when its length
\* source is of an unsigned integer type: a reference to a previously
\* declared signed-integer or floating-point field fails validation.
C19_UnsignedSource ==
    pc = "parsed" =>
        ((err.kind = "none") <=> (SourceType(src[1]) \in UnsignedTypes))

\* the type of the length source is not looked at: every scalar declared
\* before the array is accepted
C19_AnySource ==
    pc = "parsed" => (err.kind = "none" /\ ~device.nil)

\* Parse has accepted an array sized by an int8 field
C19_Witness ==
    /\ pc = "parsed"
    /\ ver = "v2"
    /\ src[1].fields[1].tname = "int8"
    /\ src[1].fields[3].size.ref = "n"
    /\ err.kind = "none"
    /\ ~device.nil

-----------------------------------------------------------------------------
(* The C++ family: the generated C++ functions on buffers of every size.   *)

MaxCppFields == 3   \* fields of the register the generated C++ code is run on

\* a 32-bit scalar, a bit field, a fixed array and an 8-bit scalar
CppSlots ==
    << {SimpleField("a", s, "uint32") : s \in Specifiers},
       {BitFieldOf("bf", s, "uint8", <<BitMember("m", 4, 6)>>) : s \in Specifiers},
       {ArrayField("fix", s, ConstSize(2), "uint16") : s \in Specifiers},
       {SimpleField("d", s, "uint8") : s \in Specifiers} >>

RECURSIVE CppFieldLists(_, _)
CppFieldLists(k, n) ==
    IF k > Len(CppSlots) THEN { << >> }
    ELSE CppFieldLists(k + 1, n)
           \cup (IF n = 0 THEN {}
                 ELSE {<<f>> \o fl : f \in CppSlots[k], fl \in CppFieldLists(k + 1, n - 1)})

InitCpp ==
    /\ ver = "v1"
    /\ src \in { <<RegisterOf("R1", 1, s, fl)>> :
                    s \in Specifiers, fl \in CppFieldLists(1, MaxCppFields) }
    /\ InitCommon

NextCpp == DoParse \/ DoGenerate \/ CallSend \/ CallReceive

SpecCpp == InitCpp /\ [][NextCpp]_vars

\* an int result that tells the caller of a failure: no byte count
Reported(n) == n < 0

\* C21: send_read_data, send_write_data, receive_read_data and
\* receive_write_data never skip a field that does not fit and go on with
\* later fields at its offset: the bytes written are a prefix of the full
\* encoding of the view, the rest of the buffer is untouched, and a buffer
\* shorter than the view is reported as a failure, not as a byte count.
C21_NoSilentSkip ==
    /\ (pc = "called" /\ arg.fn = "send") =>
          LET full == ViewEncoding(src, src[arg.reg], arg.view, arg.val) IN
          /\ Reported(out.n)
                \/ /\ out.n <= Len(full)
                   /\ SubSeq(out.buf, 1, out.n) = SubSeq(full, 1, out.n)
                   /\ \A k \in (out.n + 1)..Len(out.buf) : out.buf[k] = -1
          /\ Len(arg.buf) < Len(full) => Reported(out.n)
    /\ (pc = "decoded" /\ arg.fn = "receive") =>
          (Len(arg.buf) < arg.full => Reported(out.n))

\* send_read_data on a buffer of one byte has skipped the 32-bit scalar,
\* stored the 8-bit scalar in its place and returned 1
C21_Witness ==
    /\ pc = "called"
    /\ arg.fn = "send"
    /\ arg.view = "Read"
    /\ FieldNames(src[1].fields) = <<"a", "d">>
    /\ FieldNames(ViewFields("Read", src[1])) = <<"a", "d">>
    /\ Len(arg.buf) = 1
    /\ out.n = 1
    /\ out.buf = BigEndian(arg.val["d"], 1)

-----------------------------------------------------------------------------
(* The bit-member family: a variable array whose length is a bit member,   *)
(* for every base width, members at the bottom, in the middle and at the   *)
(* top of the base, written in decimal or in hexadecimal, and every form   *)
(* of reference.                                                           *)

\* the token 0x<n> of a number below 256
HexLit(n) == Lit("0x", IF n < 16 THEN <<n>> ELSE <<n \div 16, n % 16>>)

\* the start bits of the two-bit members of a base of w bits
LenStarts(w) == {0, 2, w - 2}

LenMembers(base) ==
    {BitMember("m", st, st + 1) : st \in LenStarts(getTypeSizeInBits(base))}
       \cup {BitMemberLit("m", HexLit(st), HexLit(st + 1)) :
                st \in LenStarts(getTypeSizeInBits(base))}

LenRefs == {"bf_m", "m", "bf_m_bm"}

InitLen ==
    /\ ver \in AllVersions
    /\ src \in UNION { { <<RegisterOf("R1", 1, "",
                                       <<BitFieldOf("bf", "", base, <<bm>>),
                                         ArrayField("vb", "", VarSize(ref), "uint8")>>)>> :
                            bm \in LenMembers(base), ref \in LenRefs } :
                        base \in UnsignedTypes }
    /\ InitCommon

NextLen == DoParse \/ DoGenerate \/ CallBufSize \/ CallSerializeInto \/ CallDeserialize

SpecLen == InitLen /\ [][NextLen]_vars

\* the value of a bit member in the value x of its bit field: the bits
\* start..end of x, counted from start
MemberValue(bm, x) == IntOf({b - bm.start : b \in x \cap (bm.start..EndOf(bm))})

\* the register has a variable array whose length is a bit member
BitSized(r) ==
    \E i, j \in 1..Len(r.fields) :
       /\ IsVarArray(r.fields[i]) /\ r.fields[j].kind = "bitfield"
       /\ \E k \in 1..Len(r.fields[j].bits) :
             r.fields[i].size.ref \in
                {r.fields[j].bits[k].name,
                 r.fields[j].name \o "_" \o r.fields[j].bits[k].name,
                 r.fields[j].name \o "_" \o r.fields[j].bits[k].name \o "_bm"}

\* C22: for a variable array whose length reference is a bit member, the
\* element count used for encoding, for decoding and in the size formula is
\* (base & mask) >> startBit of the current value of the owning bit field,
\* for every base width, every legal member range and every form of
\* reference the validator accepts.
C22_BitMemberCount ==
    /\ (pc = "generated" /\ code.backend = "cpp") =>
          \A i \in 1..Len(src) : \A a \in DOMAIN code.Registers[i].size :
             LET e == code.Registers[i].size[a] IN
             e.k \in {"masked", "shifted", "bitmask"} =>
                \/ e.k = "shifted"
                \/ e.k = "masked" /\ src[i].fields[e.fi].bits[e.mi].start = 0
    /\ (IsSizeCall /\ BitSized(src[arg.reg])) =>
          out.n = SizeFormula(src, src[arg.reg], arg.view, arg.val)
    /\ (/\ pc = "called" /\ arg.fn \in {"SerializeRead", "SerializeWrite"}
        /\ BitSized(src[arg.reg])
        /\ Len(arg.val["vb"]) = MemberValue(src[arg.reg].fields[1].bits[1], arg.val["bf"])
        /\ Len(arg.buf) >= SizeFormula(src, src[arg.reg], arg.view, arg.val)) =>
          (out.err = "nil" /\ out.n = SizeFormula(src, src[arg.reg], arg.view, arg.val))
    /\ (pc = "decoded" /\ BitSized(src[arg.reg]) /\ out.err = "nil") =>
          Len(out.val["vb"]) = MemberValue(src[arg.reg].fields[1].bits[1], out.val["bf"])

\* the serializer of {bf uint16{m: 0xE-0xF}; vb [bf_m]uint8} has refused a
\* register whose member m is 2 and whose array has two elements
C22_Witness ==
    /\ pc = "called"
    /\ arg.fn = "SerializeRead"
    /\ src[1].fields[1].tname = "uint16"
    /\ src[1].fields[1].bits[1] = BitMemberLit("m", HexLit(14), HexLit(15))
    /\ arg.val["bf"] = {15}
    /\ Len(arg.val["vb"]) = 2
    /\ Len(arg.buf) = BufLen
    /\ out.err # "nil"
    /\ out.n = 0

-----------------------------------------------------------------------------
(* What an embedded register adds to a view.                               *)

IsRefField(f) == f.kind = "simple" /\ IsRegisterRef(f.tname)

\* the register without its register-reference fields
WithoutRefs(r) == [r EXCEPT !.fields = SelectSeq(r.fields, LAMBDA f : ~IsRefField(f))]

\* the size the generated code gives the register without those fields
SizeWithoutRefs(view, r, val) ==
    BufSize4(view, GenerateGo(DeviceOf(<<WithoutRefs(r)>>)), GoRegisterOf(WithoutRefs(r)), val)

\* the fields of the view of r that are declared before field j
ViewBefore(view, r, j) == ViewFields(view, [r EXCEPT !.fields = SubSeq(r.fields, 1, j - 1)])

\* the encoding of the target's view that a reference field in the view
\* stands for; nothing for a field that is not in the view
RefEncoding(d, r, view, val, f) ==
    IF InView(view, r, f) THEN ViewEncoding(d, RegisterNamed(d, f.tname), view, val[f.name])
    ELSE << >>

\* C23: a register-reference field adds to the Read view exactly the Read
\* view encoding and size of its target, and to the Write view exactly the
\* Write view encoding and size of its target; a read-write reference adds
\* once to each view, and a view never holds the target's encoding for the
\* other view.
C23_RegisterRef ==
    /\ (IsSizeCall /\ code.backend = "go") =>
          \A j \in 1..Len(src[arg.reg].fields) :
             LET r == src[arg.reg]
                 f == r.fields[j]
             IN  IsRefField(f) =>
                   out.n - SizeWithoutRefs(arg.view, device.registers[arg.reg], arg.val)
                      = IF InView(arg.view, r, f)
                        THEN SizeFormula(src, RegisterNamed(src, f.tname), arg.view,
                                         arg.val[f.name])
                        ELSE 0
    /\ (IsSerializeCall /\ out.err = "nil") =>
          \A j \in 1..Len(src[arg.reg].fields) :
             LET r == src[arg.reg]
                 f == r.fields[j]
                 off == Len(fieldsEncoding(src, ViewBefore(arg.view, r, j), arg.view, arg.val))
                 enc == RefEncoding(src, r, arg.view, arg.val, f)
                 rest == fieldsEncoding(src, ViewFields(arg.view, WithoutRefs(r)),
                                        arg.view, arg.val)
             IN  IsRefField(f) =>
                   /\ SubSeq(out.buf, off + 1, off + Len(enc)) = enc
                   /\ out.n = Len(rest) + Len(enc)

\* SerializeWrite of a register with an unmarked scalar and an unmarked
\* Config has written the scalar and then mode and limit of the Config
C23_Witness ==
    /\ IsSerializeCall
    /\ arg.fn = "SerializeWrite"
    /\ arg.reg = 2
    /\ src[2].spec = ""
    /\ FieldNames(src[2].fields) = <<"n", "cfg">>
    /\ \A j \in 1..2 : src[2].fields[j].spec = ""
    /\ out.err = "nil"
    /\ out.n = 4
    /\ SubSeq(out.buf, 2, 4)
          = BigEndian(arg.val["cfg"]["mode"], 1) \o BigEndian(arg.val["cfg"]["limit"], 2)

-----------------------------------------------------------------------------
(* The length reference as the generators resolve it.                      *)

NextRes == DoParse \/ DoGenerate

\* the resolution family: Parse and the generator on one register with
\* length references and names carried more than once
SpecRes == InitArr /\ [][NextRes]_vars

\* the field index and member index the generated code takes the length of
\* array j of register i from; 0 where the code names none
GenTarget(i, j) ==
    IF code.backend = "cpp"
    THEN [fi |-> code.Registers[i].size[j].fi, mi |-> code.Registers[i].size[j].mi]
    ELSE LET e == code.Registers[i].Fields[j].ConsistencyChecks[1].elems
             v == FindFieldByName(device.registers[i], src[i].fields[j].size.ref, j)
         IN  IF e.k = "bits" /\ v.found /\ v.mi # 0
                   /\ e.f = src[i].fields[v.fi].name
                   /\ e.mask = MaskName(src[i].name, e.f, src[i].fields[v.fi].bits[v.mi].name)
             THEN [fi |-> v.fi, mi |-> v.mi]
             ELSE IF e.k = "field" /\ v.found /\ e.f = src[i].fields[v.fi].name
             THEN [fi |-> v.fi, mi |-> 0]
             ELSE [fi |-> 0, mi |-> 0]

\* C24: for every accepted schema the generator resolves the length
\* reference of each variable array to the field or bit member validation
\* resolved it to, a sibling declared before the array, and never to a
\* field declared after the array, also when a name is carried both by a
\* plain field and by a synthesized <field>_<member> name.
C24_SameResolution ==
    pc = "generated" =>
        \A i \in 1..Len(src) : \A j \in 1..Len(src[i].fields) :
            IsVarArray(src[i].fields[j]) =>
               LET v == resolveLength(ver, src[i], src[i].fields[j].size.ref, j)
                   g == GenTarget(i, j)
               IN  g.fi = v.fi /\ g.mi = v.mi /\ g.fi < j

\* the C++ generator has taken the length of data [bf_m] from the field
\* bf_m declared after the array, where validation found the member m of bf
C24_Witness ==
    /\ pc = "generated"
    /\ code.backend = "cpp"
    /\ FieldNames(src[1].fields) = <<"bf", "data", "bf_m">>
    /\ src[1].fields[2].size.ref = "bf_m"
    /\ resolveLength(ver, src[1], "bf_m", 2) = Found("bitfield_ref", 1, 1)
    /\ code.Registers[1].size[2] = SizeExpr("field", 3, 0)

-----------------------------------------------------------------------------
(* What validation leaves of the AST.                                      *)

\* the register as declared, with the register's specifier on the fields
\* that were declared without one
Inherited(r) ==
    [r EXCEPT !.fields =
        [j \in 1..Len(r.fields) |->
            IF r.fields[j].spec = "" /\ r.spec # "" THEN [r.fields[j] EXCEPT !.spec = r.spec]
            ELSE r.fields[j]]]

\* C25: a successful validation changes nothing in the semantic content of
\* the AST but the specifier of the fields declared without one inside a
\* register that has a specifier: names, numbers and specifiers of
\* registers, order, names and types of fields, array sizes and length
\* references, names and ranges of bit members are as they were.
C25_FrameOfValidation ==
    (pc # "input" /\ err.kind = "none") =>
        /\ ~device.nil
        /\ Len(device.registers) = Len(src)
        /\ \A i \in 1..Len(src) : device.registers[i] = Inherited(src[i])

\* Parse has accepted a read-only register with an unmarked bit field and
\* an unmarked variable array, and a register that was left as it was
C25_Witness ==
    /\ pc = "parsed"
    /\ err.kind = "none"
    /\ src[2].spec = "r"
    /\ FieldNames(src[2].fields) = <<"n", "bf", "vb">>
    /\ src[2].fields[2].spec = "" /\ src[2].fields[3].spec = ""
    /\ device.registers[2].fields[2].spec = "r"
    /\ device.registers[2] # src[2]
    /\ device.registers[1] = src[1]

-----------------------------------------------------------------------------
(* The mask constants of the C++ header: one bit field of every unsigned    *)
(* base type with one member over every range the validation accepts.      *)

MaskFields ==
    UNION { {BitFieldOf("f", "", base, <<BitMember("m", a, b)>>) :
                a \in 0..(8 * sizeofCppType(base) - 1),
                b \in 0..(8 * sizeofCppType(base) - 1)}
            \cup {BitFieldOf("f", "", base, <<BitMember1("m", a)>>) :
                a \in 0..(8 * sizeofCppType(base) - 1)} : base \in UnsignedTypes }

InitCppMask ==
    /\ arg \in {[f |-> f] : f \in MaskFields}
    /\ arg.f.bits[1].hasEnd => arg.f.bits[1].start <= arg.f.bits[1].end
    /\ pc = "input" /\ out = NoOut /\ ver = "v1" /\ src = << >>
    /\ device = NoDevice /\ err = NoErr /\ code = NoCode
NextCppMask == CallToBitMask
SpecCppMask == InitCppMask /\ [][NextCppMask]_vars

\* ((1 << (end - start + 1)) - 1) << start
RangeMask(start, end) == {b \in Word : start <= b /\ b <= end}

\* C26: the mask constant the C++ header declares for a bit member start-end
\* is ((1 << (end - start + 1)) - 1) << start for every 0 <= start <= end <=
\* 63: its initialiser is that number in hexadecimal, and the declared type
\* is wide enough for the constant to hold it.
C26_CppMaskConstant ==
    (pc = "done" /\ "decl" \in DOMAIN out) =>
        LET bm == arg.f.bits[1]
            end == IF bm.hasEnd THEN bm.end ELSE bm.start
        IN  /\ out.decl.Text = Sprintf02X(RangeMask(bm.start, end))
            /\ out.held.wellFormed
            /\ 8 * sizeofCppType(out.decl.Type) > end
            /\ out.held.value = RangeMask(bm.start, end)

\* the constant of member 8-11 of a uint16 bit field has been generated
C26_Witness ==
    /\ pc = "done" /\ "decl" \in DOMAIN out
    /\ arg.f.tname = "uint16"
    /\ arg.f.bits[1].start = 8 /\ arg.f.bits[1].end = 11
    /\ out.decl.Text = "0xF00"
    /\ out.held.value = {}

-----------------------------------------------------------------------------
(* Byte counts of the generated Go code: size function, serializer and     *)
(* deserializer of one view on one register value.                         *)

\* a serializer has returned without an error
Serialized == pc = "called" /\ arg.fn \in {"SerializeRead", "SerializeWrite"} /\ out.err = "nil"

\* the count a successful serializer returns is the size function's
SerializeCount ==
    Serialized => out.n = BufSize4(arg.view, code, code.Registers[arg.reg], arg.val)

\* the deserializer of a fresh register returns the serializer's count
DeserializeCount == IsRoundTrip => (out.err = "nil" /\ out.n = arg.full)

\* C27: when SerializeRead (SerializeWrite) succeeds on a register value,
\* the count it returns is BufSize4Read() (BufSize4Write()) of that value,
\* and DeserializeRead (DeserializeWrite) of a fresh register on the bytes
\* written returns the same count.
C27_SameCount == SerializeCount /\ DeserializeCount

\* DeserializeRead has run on the eight bytes SerializeRead wrote for an
\* array of two elements whose length source is write-only, and returned
C27_Witness ==
    /\ IsRoundTrip
    /\ arg.fn = "DeserializeRead"
    /\ FieldNames(src[2].fields) = <<"n", "data">>
    /\ src[2].fields[1].spec = "w" /\ src[2].fields[2].spec = ""
    /\ arg.full = 8
    /\ BufSize4("Read", code, code.Registers[2], arg.val) = 8
    /\ out.err = "nil"
    /\ out.n # arg.full

-----------------------------------------------------------------------------
(* Register identifiers: devices whose register numbers go beyond a byte,  *)
(* parsed and given to the generator of the revision.                      *)

MaxIdRegs == 3     \* registers per device in the identifier family

IdNumbers == {0, 1, 255, 256, 257, 513}

InitId ==
    /\ ver \in AllVersions
    /\ src \in { [i \in 1..Len(ns) |->
                    RegisterOf(RegName(i), ns[i], "", <<SimpleField("a", "", "uint8")>>)] :
                 ns \in SeqsUpTo(IdNumbers, MaxIdRegs) }
    /\ InitCommon

NextId == DoParse \/ DoGenerate

SpecId == InitId /\ [][NextId]_vars

\* C28: for every schema Parse accepts, the register identifiers a backend
\* emits are pairwise distinct: two registers with distinct numbers never
\* get the same 8-bit identifier, whatever the magnitude of the numbers.
C28_DistinctIDs ==
    pc = "generated" =>
        \A i, j \in 1..Len(code.Registers) :
            device.registers[i].number # device.registers[j].number =>
                code.Registers[i].ID # code.Registers[j].ID

\* a device with registers numbered 1 and 257 has been accepted and code
\* has been generated for it
C28_Witness ==
    /\ pc = "generated"
    /\ err.kind = "none"
    /\ Len(src) = 2
    /\ src[1].number = 1 /\ src[2].number = 257
    /\ code.Registers[1].ID = 1
    /\ code.Registers[2].ID = 1

-----------------------------------------------------------------------------
(* Termination: the methods of the generated registers run one expression  *)
(* or statement at a time on the devices of the register-reference family. *)

NextRun == DoParse \/ DoGenerate \/ StartCall \/ StepStatement \/ StepCall \/ StepReturn

\* the devices of the register-reference family, for the parsers whose
\* schemas go to the Go generator
InitRun == InitRef /\ ver # "v1"

\* a call that has started goes on running: it is one sequential program
SpecRun ==
    /\ InitRun
    /\ [][NextRun]_vars
    /\ WF_vars(StepStatement \/ StepCall \/ StepReturn)

-----------------------------------------------------------------------------
(* The consistency check and the views.                                    *)

\* a variable array of the register that is not in the view and whose
\* length is not the value of its length source
HiddenMismatch(r, view, val) ==
    \E j \in 1..Len(r.fields) :
       /\ r.fields[j].kind = "array" /\ r.fields[j].size.k = "var"
       /\ ~InView(view, r, r.fields[j])
       /\ Len(val[r.fields[j].name]) # LengthValue(r, r.fields[j].size.ref, val)

\* every variable array of the view has the length its source gives
ViewConsistent(r, view, val) ==
    \A j \in 1..Len(r.fields) :
       (r.fields[j].kind = "array" /\ r.fields[j].size.k = "var" /\ InView(view, r, r.fields[j]))
          => Len(val[r.fields[j].name]) = LengthValue(r, r.fields[j].size.ref, val)

\* C30: the consistency check at the start of SerializeRead and
\* SerializeWrite covers every variable array of the register, whatever the
\* view: SerializeRead returns the error for a length mismatch of a
\* write-only array and SerializeWrite for one of a read-only array, though
\* the array is not in the view that is serialized.
C30_CheckAllViews ==
    (IsSerializeCall /\ HiddenMismatch(src[arg.reg], arg.view, arg.val)) =>
        (out.err = "length mismatch" /\ out.n = 0)

\* SerializeRead has returned the error for a write-only array whose length
\* is not its source's value, in a register whose read view is consistent
C30_Witness ==
    /\ IsSerializeCall
    /\ arg.fn = "SerializeRead"
    /\ FieldNames(src[arg.reg].fields) = <<"n", "data">>
    /\ src[arg.reg].fields[2].spec = "w"
    /\ InView("Read", src[arg.reg], src[arg.reg].fields[1])
    /\ HiddenMismatch(src[arg.reg], "Read", arg.val)
    /\ ViewConsistent(src[arg.reg], "Read", arg.val)
    /\ Len(arg.buf) = BufLen
    /\ out.err = "length mismatch"
    /\ out.n = 0

====
